---- MODULE Spec2Model ----
(***************************************************************************)
(* The vessel/personnel lookup tool of the MCP utilities server            *)
(* (get_vessel_personnel_info, src/src/tools.ts:578-717) as a state        *)
(* machine: one invocation at a time walks                                 *)
(*   idle -> (validation | credentials | exact search) -> (fuzzy search)   *)
(*        -> done -> idle                                                  *)
(* against a search index that the tool only reads.                        *)
(*                                                                         *)
(* Strings are sequences of one-character strings, so that parseInt,       *)
(* toLowerCase, template literals and join are computed, not assumed.      *)
(* Fixed fragments of a template literal (a field name, ":=", " || ")      *)
(* are kept as one element of the sequence.                                *)
(***************************************************************************)
EXTENDS Integers, Sequences, FiniteSets, TLC

\* ------------------------------------------------------------------ bounds

\* The largest number of records the index holds.
MaxIndex == 2

\* The largest number of sub-errors an aggregate backend error carries.
MaxSubErrors == 2

\* ------------------------------------------------------------ string tools

Upper == <<"A","B","C","D","E","F","G","H","I","J","K","L","M",
           "N","O","P","Q","R","S","T","U","V","W","X","Y","Z">>
Lower == <<"a","b","c","d","e","f","g","h","i","j","k","l","m",
           "n","o","p","q","r","s","t","u","v","w","x","y","z">>
Digits == <<"0","1","2","3","4","5","6","7","8","9">>

InSeq(c, s) == \E i \in 1..Len(s) : s[i] = c
IndexOf(c, s) == CHOOSE i \in 1..Len(s) : s[i] = c

IsUpper(c) == InSeq(c, Upper)
IsDigit(c) == InSeq(c, Digits)
IsSpace(c) == c \in {" ", "\t", "\n"}

\* String.prototype.toLowerCase, one character.
LowerChar(c) == IF IsUpper(c) THEN Lower[IndexOf(c, Upper)] ELSE c
\* String.prototype.toUpperCase, one character.
UpperChar(c) == IF InSeq(c, Lower) THEN Upper[IndexOf(c, Lower)] ELSE c

toLowerCase(s) == [i \in 1..Len(s) |-> LowerChar(s[i])]

\* The character U+0060, which a TLA+ string cannot hold.
Backtick == "<backtick>"

\* A JavaScript string literal as a sequence of characters.
STrue == <<"t","r","u","e">>
SFalse == <<"f","a","l","s","e">>

\* Array.prototype.join: the parts (each a string) with sep between them.
RECURSIVE join(_, _)
join(parts, sep) ==
    IF Len(parts) = 0 THEN <<>>
    ELSE IF Len(parts) = 1 THEN parts[1]
    ELSE parts[1] \o sep \o join(Tail(parts), sep)

\* The value of the longest run of digits of s that starts at position i,
\* continuing the value acc; <<value, digits read>>.
RECURSIVE ReadDigits(_, _, _, _)
ReadDigits(s, i, acc, n) ==
    IF i <= Len(s) /\ IsDigit(s[i])
    THEN ReadDigits(s, i + 1, acc * 10 + (IndexOf(s[i], Digits) - 1), n + 1)
    ELSE <<acc, n>>

RECURSIVE SkipSpace(_, _)
SkipSpace(s, i) == IF i <= Len(s) /\ IsSpace(s[i]) THEN SkipSpace(s, i + 1) ELSE i

\* parseInt(s, 10): leading white space is skipped, one sign is read, then
\* the longest run of decimal digits; what follows the digits is ignored,
\* and NaN is the result when there is no digit.
NaN == [nan |-> TRUE, val |-> 0]
parseInt(s) ==
    LET i == SkipSpace(s, 1)
        neg == i <= Len(s) /\ s[i] = "-"
        j == IF i <= Len(s) /\ s[i] \in {"-", "+"} THEN i + 1 ELSE i
        r == ReadDigits(s, j, 0, 0)
    IN IF r[2] = 0 THEN NaN
       ELSE [nan |-> FALSE, val |-> IF neg THEN 0 - r[1] ELSE r[1]]

isNaN(x) == x.nan

\* Number to string, as a template literal prints an integer.
RECURSIVE NatToChars(_)
NatToChars(n) ==
    IF n < 10 THEN <<Digits[n + 1]>>
    ELSE NatToChars(n \div 10) \o <<Digits[(n % 10) + 1]>>
NumToChars(x) ==
    IF x.nan THEN <<"N","a","N">>
    ELSE IF x.val < 0 THEN <<"-">> \o NatToChars(0 - x.val)
    ELSE NatToChars(x.val)

\* A string primitive that may be absent (undefined or null).
Undefined == [def |-> FALSE, str |-> <<>>]
Str(s) == [def |-> TRUE, str |-> s]

\* ------------------------------------------------------------ field schema

vesselInfoFields ==
    <<"vesselName", "groupName", "shippalmDoc", "isV3", "class", "imo", "doc", "fleet">>
emailFields ==
    <<"vesselEmailId", "technicalSuperintendentEmailId", "procurementExecEmailId",
      "marineSuperintendentEmailId", "vgEmailId", "technicalExecutiveEmailId",
      "dcoExecEmailId", "pmsExecEmailId", "accountsPicEmailId",
      "backupTechSuperintendentEmailId", "cmsSuperintendentEmailId",
      "fleetManagerEmailId", "marineManagerEmailId", "itPicEmailId",
      "manningGroupHeadEmailId", "marineExecEmailId">>
personNameFields ==
    <<"technicalSuperintendent", "procurementExec", "owner", "marineSuperintendent",
      "technicalExecutive", "dcoExec", "pmsExec", "fleetManager", "accountsPic",
      "backupTechSuperintendent", "cmsSuperintendent", "itPic", "manningGroupHead",
      "marineExec", "marineManager">>

numericFields == <<"imo">>
boolFields == <<"isV3">>

includes(s, x) == InSeq(x, s)

\* let searchFields, chosen by the query type.
searchFieldsOf(queryType) ==
    IF queryType = "email" THEN emailFields
    ELSE IF queryType = "name" THEN personNameFields
    ELSE IF queryType = "vessel" THEN vesselInfoFields
    ELSE <<>>

IsStringField(f) == ~includes(numericFields, f) /\ ~includes(boolFields, f)
\* A faulty stringFieldsOf: the numeric and boolean fields are not taken out.
stringFieldsOfAll(searchFields) == searchFields

stringFieldsOf(searchFields) == SelectSeq(searchFields, IsStringField)

\* A value as JavaScript sees it: a field of a record of the index, or what a
\* caller put in a query slot.
VStr(s) == [t |-> "string", s |-> s, n |-> 0, b |-> FALSE, a |-> <<>>]
VNum(n) == [t |-> "number", s |-> <<>>, n |-> n, b |-> FALSE, a |-> <<>>]
VBool(b) == [t |-> "boolean", s |-> <<>>, n |-> 0, b |-> b, a |-> <<>>]
VArr(a) == [t |-> "array", s |-> <<>>, n |-> 0, b |-> FALSE, a |-> a]
VNull == [t |-> "null", s |-> <<>>, n |-> 0, b |-> FALSE, a |-> <<>>]

\* typeof query === 'string'
IsStringValue(v) == v.t = "string"

\* --------------------------------------------------- exact filter (phase 1)

\* field:=numericQuery for every numeric field of the group.
NumericParts(searchFields, numericQuery) ==
    LET InGroup(f) == includes(searchFields, f)
        fs == SelectSeq(numericFields, InGroup)
    IN [i \in 1..Len(fs) |-> <<fs[i], ":=">> \o NumToChars(numericQuery)]

\* A faulty BoolParts: the query is written as given, not in lower case.
BoolPartsAsGiven(searchFields, query) ==
    LET InGroup(f) == includes(searchFields, f)
        fs == SelectSeq(boolFields, InGroup)
    IN [i \in 1..Len(fs) |-> <<fs[i], ":=">> \o query]

\* field:=query.toLowerCase() for every boolean field of the group.
BoolParts(searchFields, query) ==
    LET InGroup(f) == includes(searchFields, f)
        fs == SelectSeq(boolFields, InGroup)
    IN [i \in 1..Len(fs) |-> <<fs[i], ":=">> \o toLowerCase(query)]

\* field:= and the query between backticks, for every string field of the group.
StringParts(stringFields, query) ==
    [i \in 1..Len(stringFields) |->
        <<stringFields[i], ":=", Backtick>> \o query \o <<Backtick>>]

\* The clauses of one query type: the body of the loop over activeQueries.
filterPartsOf(queryType, query) ==
    LET searchFields == searchFieldsOf(queryType)
        stringFields == stringFieldsOf(searchFields)
        numericQuery == parseInt(query)
        lowered == toLowerCase(query)
    IN (IF queryType # "email" /\ ~isNaN(numericQuery)
        THEN NumericParts(searchFields, numericQuery) ELSE <<>>)
       \o (IF queryType # "email" /\ (lowered = STrue \/ lowered = SFalse)
           THEN BoolParts(searchFields, query) ELSE <<>>)
       \o StringParts(stringFields, query)

\* A faulty GroupOf: the clauses joined by ' || ' without the parentheses.
GroupOfBare(filterParts) == join(filterParts, <<" || ">>)

\* The clauses joined by ' || ', in parentheses.
GroupOf(filterParts) == <<"(">> \o join(filterParts, <<" || ">>) \o <<")">>

\* Object.entries(activeQueries) when every query is a string, which is what
\* the declared type of the arguments promises.
entriesOf(activeQueries) ==
    [i \in 1..Len(activeQueries) |-> <<activeQueries[i][1], VStr(activeQueries[i][2])>>]

\* A faulty groupsOf: the group is pushed whether or not it has clauses.
groupsOfUnguarded(filterParts) == <<GroupOf(filterParts)>>

\* if (filterParts.length > 0) combinedFilterParts.push(...)
groupsOf(filterParts) == IF Len(filterParts) > 0 THEN <<GroupOf(filterParts)>> ELSE <<>>

\* combinedFilterParts: one group per active query that has clauses; a query
\* that is not a string gets no clause. The entries are <<queryType, value>>.
RECURSIVE combinedFilterPartsOf(_)
combinedFilterPartsOf(entries) ==
    IF Len(entries) = 0 THEN <<>>
    ELSE LET query == entries[1][2]
             filterParts == IF IsStringValue(query)
                            THEN filterPartsOf(entries[1][1], query.s) ELSE <<>>
         IN groupsOf(filterParts) \o combinedFilterPartsOf(Tail(entries))

\* const filterQuery = combinedFilterParts.join(' && ')
filterQueryOf(entries) == join(combinedFilterPartsOf(entries), <<" && ">>)

\* ------------------------------------------------------------- the records

\* A record (document) is the sequence of its <<key, value>> entries, in the
\* order Object.entries yields them.
HasKey(doc, key) == \E i \in 1..Len(doc) : doc[i][1] = key
ValueOf(doc, key) ==
    IF HasKey(doc, key) THEN doc[CHOOSE i \in 1..Len(doc) : doc[i][1] = key][2]
    ELSE VNull

\* Sample strings.
SAl == <<"A","l">>
SEG == <<"E","G">>
S97 == <<"9","7">>
S07 == <<"0","7">>
S9S == <<"9"," ","S">>
SMail == <<"a","@","b">>
STRUE == <<"T","R","U","E">>

\* The records the index may hold.
DocPool ==
    << << <<"vesselName", VStr(SEG)>>, <<"imo", VNum(97)>>, <<"isV3", VBool(TRUE)>>,
          <<"technicalSuperintendent", VStr(SAl)>>,
          <<"technicalSuperintendentEmailId", VNull>>,
          <<"vesselEmailId", VStr(SMail)>>,
          <<"owner", VArr(<< <<"A"," ","C">>, <<"B"," ","C">> >>)>> >>,
       << <<"vesselName", VStr(S9S)>>, <<"fleet", VStr(SEG)>>, <<"imo", VNum(9)>>,
          <<"isV3", VBool(FALSE)>>, <<"fleetManager", VStr(SAl)>>,
          <<"marineManager", VStr(<<>>)>>, <<"owner", VArr(<< SAl >>)>> >>,
       << <<"vesselName", VStr(STrue)>>, <<"groupName", VStr(S97)>>, <<"imo", VNum(0)>>,
          <<"fleetManagerEmailId", VStr(SMail)>>, <<"itPic", VStr(STrue)>>,
          <<"owner", VArr(<<>>)>> >>,
       << <<"vesselName", VStr(SAl)>>, <<"isV3", VBool(TRUE)>>,
          <<"itPicEmailId", VStr(STrue)>>, <<"marineExec", VStr(<<"B","o">>)>> >> >>

\* ------------------------------------------------- the search backend

\* The type the index schema gives a field.
FieldType(f) ==
    IF f = "imo" THEN "int64"
    ELSE IF f = "isV3" THEN "bool"
    ELSE IF f = "owner" THEN "string[]"
    ELSE "string"

IsField(x) == includes(vesselInfoFields, x) \/ includes(emailFields, x)
                  \/ includes(personNameFields, x)

PFail == [ok |-> FALSE, val |-> FALSE, pos |-> 0]
POk(v, p) == [ok |-> TRUE, val |-> v, pos |-> p]

\* The first position at or after p that holds Backtick (Len + 1 if none).
RECURSIVE ClosingQuote(_, _)
ClosingQuote(t, p) ==
    IF p > Len(t) \/ t[p] = Backtick THEN p ELSE ClosingQuote(t, p + 1)

\* The first position at or after p that ends an unquoted value.
RECURSIVE ValueEnd(_, _)
ValueEnd(t, p) ==
    IF p > Len(t) \/ t[p] \in {" || ", " && ", ")", "("} THEN p ELSE ValueEnd(t, p + 1)

\* Whether the whole of s is a decimal integer.
IsInteger(s) ==
    LET j == IF Len(s) > 0 /\ s[1] \in {"-", "+"} THEN 2 ELSE 1
    IN j <= Len(s) /\ \A i \in j..Len(s) : IsDigit(s[i])

\* field:=value on one record: error when the value is not of the field's type.
ClauseOn(doc, f, quoted, value, next) ==
    LET v == ValueOf(doc, f)
    IN CASE FieldType(f) = "int64" ->
              IF quoted \/ ~IsInteger(value) THEN PFail
              ELSE POk(v.t = "number" /\ v.n = parseInt(value).val, next)
         [] FieldType(f) = "bool" ->
              IF quoted \/ value \notin {STrue, SFalse} THEN PFail
              ELSE POk(v.t = "boolean" /\ v.b = (value = STrue), next)
         [] FieldType(f) = "string[]" ->
              POk(v.t = "array" /\ \E i \in 1..Len(v.a) : v.a[i] = value, next)
         [] OTHER ->
              POk(v.t = "string" /\ v.s = value, next)

PClause(t, doc, p) ==
    IF p + 2 > Len(t) \/ ~IsField(t[p]) \/ t[p + 1] # ":=" THEN PFail
    ELSE IF t[p + 2] = Backtick
    THEN LET q == ClosingQuote(t, p + 3)
         IN IF q > Len(t) THEN PFail
            ELSE ClauseOn(doc, t[p], TRUE, SubSeq(t, p + 3, q - 1), q + 1)
    ELSE LET e == ValueEnd(t, p + 2)
         IN ClauseOn(doc, t[p], FALSE, SubSeq(t, p + 2, e - 1), e)

\* The filter grammar: clauses combined with ||, && (binding tighter) and
\* parentheses, evaluated on one record.
RECURSIVE PExpr(_, _, _)
RECURSIVE PExprRest(_, _, _)
RECURSIVE PTerm(_, _, _)
RECURSIVE PTermRest(_, _, _)
RECURSIVE PFactor(_, _, _)
PFactor(t, doc, p) ==
    IF p > Len(t) THEN PFail
    ELSE IF t[p] = "("
    THEN LET e == PExpr(t, doc, p + 1)
         IN IF e.ok /\ e.pos <= Len(t) /\ t[e.pos] = ")" THEN POk(e.val, e.pos + 1)
            ELSE PFail
    ELSE PClause(t, doc, p)
PTermRest(t, doc, a) ==
    IF a.ok /\ a.pos <= Len(t) /\ t[a.pos] = " && "
    THEN LET b == PFactor(t, doc, a.pos + 1)
         IN IF b.ok THEN PTermRest(t, doc, POk(a.val /\ b.val, b.pos)) ELSE PFail
    ELSE a
PTerm(t, doc, p) == PTermRest(t, doc, PFactor(t, doc, p))
PExprRest(t, doc, a) ==
    IF a.ok /\ a.pos <= Len(t) /\ t[a.pos] = " || "
    THEN LET b == PTerm(t, doc, a.pos + 1)
         IN IF b.ok THEN PExprRest(t, doc, POk(a.val \/ b.val, b.pos)) ELSE PFail
    ELSE a
PExpr(t, doc, p) == PExprRest(t, doc, PTerm(t, doc, p))

\* The filter is well formed (it is parsed whatever the records are).
FilterValid(filter_by) ==
    Len(filter_by) = 0
    \/ LET r == PExpr(filter_by, <<>>, 1) IN r.ok /\ r.pos = Len(filter_by) + 1

\* The record passes the filter; an empty filter passes every record.
FilterHolds(filter_by, doc) ==
    Len(filter_by) = 0 \/ PExpr(filter_by, doc, 1).val

\* The first n elements of s.
Take(s, n) == SubSeq(s, 1, IF Len(s) < n THEN Len(s) ELSE n)

\* The result envelope of a search that matched the records matched.
Envelope(matched, per_page) ==
    [found |-> Len(matched),
     hits |-> [i \in 1..Len(Take(matched, per_page)) |-> [document |-> matched[i]]]]

\* The envelope of a filtered search (q: '*') over the records docs.
ExactEnvelope(docs, params) ==
    LET Passes(d) == FilterHolds(params.filter_by, d)
    IN Envelope(SelectSeq(docs, Passes), params.per_page)

\* ----------------------------------------------------------- the report

\* The characters of a field name.
KeyChars(f) ==
    CASE f = "vesselName" -> <<"v","e","s","s","e","l","N","a","m","e">>
      [] f = "groupName" -> <<"g","r","o","u","p","N","a","m","e">>
      [] f = "shippalmDoc" -> <<"s","h","i","p","p","a","l","m","D","o","c">>
      [] f = "isV3" -> <<"i","s","V","3">>
      [] f = "class" -> <<"c","l","a","s","s">>
      [] f = "imo" -> <<"i","m","o">>
      [] f = "doc" -> <<"d","o","c">>
      [] f = "fleet" -> <<"f","l","e","e","t">>
      [] f = "vesselEmailId" -> <<"v","e","s","s","e","l","E","m","a","i","l","I","d">>
      [] f = "technicalSuperintendentEmailId" -> <<"t","e","c","h","n","i","c","a","l","S","u","p","e","r","i","n","t","e","n","d","e","n","t","E","m","a","i","l","I","d">>
      [] f = "procurementExecEmailId" -> <<"p","r","o","c","u","r","e","m","e","n","t","E","x","e","c","E","m","a","i","l","I","d">>
      [] f = "marineSuperintendentEmailId" -> <<"m","a","r","i","n","e","S","u","p","e","r","i","n","t","e","n","d","e","n","t","E","m","a","i","l","I","d">>
      [] f = "vgEmailId" -> <<"v","g","E","m","a","i","l","I","d">>
      [] f = "technicalExecutiveEmailId" -> <<"t","e","c","h","n","i","c","a","l","E","x","e","c","u","t","i","v","e","E","m","a","i","l","I","d">>
      [] f = "dcoExecEmailId" -> <<"d","c","o","E","x","e","c","E","m","a","i","l","I","d">>
      [] f = "pmsExecEmailId" -> <<"p","m","s","E","x","e","c","E","m","a","i","l","I","d">>
      [] f = "accountsPicEmailId" -> <<"a","c","c","o","u","n","t","s","P","i","c","E","m","a","i","l","I","d">>
      [] f = "backupTechSuperintendentEmailId" -> <<"b","a","c","k","u","p","T","e","c","h","S","u","p","e","r","i","n","t","e","n","d","e","n","t","E","m","a","i","l","I","d">>
      [] f = "cmsSuperintendentEmailId" -> <<"c","m","s","S","u","p","e","r","i","n","t","e","n","d","e","n","t","E","m","a","i","l","I","d">>
      [] f = "fleetManagerEmailId" -> <<"f","l","e","e","t","M","a","n","a","g","e","r","E","m","a","i","l","I","d">>
      [] f = "marineManagerEmailId" -> <<"m","a","r","i","n","e","M","a","n","a","g","e","r","E","m","a","i","l","I","d">>
      [] f = "itPicEmailId" -> <<"i","t","P","i","c","E","m","a","i","l","I","d">>
      [] f = "manningGroupHeadEmailId" -> <<"m","a","n","n","i","n","g","G","r","o","u","p","H","e","a","d","E","m","a","i","l","I","d">>
      [] f = "marineExecEmailId" -> <<"m","a","r","i","n","e","E","x","e","c","E","m","a","i","l","I","d">>
      [] f = "technicalSuperintendent" -> <<"t","e","c","h","n","i","c","a","l","S","u","p","e","r","i","n","t","e","n","d","e","n","t">>
      [] f = "procurementExec" -> <<"p","r","o","c","u","r","e","m","e","n","t","E","x","e","c">>
      [] f = "owner" -> <<"o","w","n","e","r">>
      [] f = "marineSuperintendent" -> <<"m","a","r","i","n","e","S","u","p","e","r","i","n","t","e","n","d","e","n","t">>
      [] f = "technicalExecutive" -> <<"t","e","c","h","n","i","c","a","l","E","x","e","c","u","t","i","v","e">>
      [] f = "dcoExec" -> <<"d","c","o","E","x","e","c">>
      [] f = "pmsExec" -> <<"p","m","s","E","x","e","c">>
      [] f = "fleetManager" -> <<"f","l","e","e","t","M","a","n","a","g","e","r">>
      [] f = "accountsPic" -> <<"a","c","c","o","u","n","t","s","P","i","c">>
      [] f = "backupTechSuperintendent" -> <<"b","a","c","k","u","p","T","e","c","h","S","u","p","e","r","i","n","t","e","n","d","e","n","t">>
      [] f = "cmsSuperintendent" -> <<"c","m","s","S","u","p","e","r","i","n","t","e","n","d","e","n","t">>
      [] f = "itPic" -> <<"i","t","P","i","c">>
      [] f = "manningGroupHead" -> <<"m","a","n","n","i","n","g","G","r","o","u","p","H","e","a","d">>
      [] f = "marineExec" -> <<"m","a","r","i","n","e","E","x","e","c">>
      [] f = "marineManager" -> <<"m","a","r","i","n","e","M","a","n","a","g","e","r">>
      [] OTHER -> <<f>>

\* key.replace(/([A-Z])/g, ' $1'): a space before every upper-case letter.
RECURSIVE SpaceBeforeUpper(_)
SpaceBeforeUpper(cs) ==
    IF Len(cs) = 0 THEN <<>>
    ELSE (IF IsUpper(cs[1]) THEN <<" ", cs[1]>> ELSE <<cs[1]>>)
         \o SpaceBeforeUpper(Tail(cs))

\* .replace(/^./, str => str.toUpperCase()): the first character in upper case.
UpperFirst(cs) == IF Len(cs) = 0 THEN cs ELSE <<UpperChar(cs[1])>> \o Tail(cs)

displayKeyOf(key) == UpperFirst(SpaceBeforeUpper(KeyChars(key)))

\* A faulty Truthy: only null, undefined and the empty string count as
\* nothing; false and 0 pass.
TruthyUnlessEmpty(v) ==
    CASE v.t = "string" -> Len(v.s) > 0
      [] v.t = "null" -> FALSE
      [] OTHER -> TRUE

\* if (value): what JavaScript takes as true.
Truthy(v) ==
    CASE v.t = "string" -> Len(v.s) > 0
      [] v.t = "number" -> v.n # 0
      [] v.t = "boolean" -> v.b
      [] v.t = "array" -> TRUE
      [] OTHER -> FALSE

\* Array.isArray(value) ? value.join(', ') : String(value)
displayValueOf(v) ==
    CASE v.t = "array" -> join(v.a, <<",", " ">>)
      [] v.t = "number" -> NumToChars([nan |-> FALSE, val |-> v.n])
      [] v.t = "boolean" -> IF v.b THEN STrue ELSE SFalse
      [] v.t = "string" -> v.s
      [] OTHER -> <<"n","u","l","l">>

\* The lines of one record: one line per entry whose value is truthy.
RECURSIVE DocLines(_)
DocLines(doc) ==
    IF Len(doc) = 0 THEN <<>>
    ELSE (IF Truthy(doc[1][2])
          THEN displayKeyOf(doc[1][1]) \o <<": ">> \o displayValueOf(doc[1][2]) \o <<"\n">>
          ELSE <<>>)
         \o DocLines(Tail(doc))

\* hits.forEach((hit, i) => ...), from the hit at position i on.
RECURSIVE HitBlocks(_, _)
HitBlocks(hits, i) ==
    IF i > Len(hits) THEN <<>>
    ELSE <<"--- Result ">> \o NatToChars(i) \o <<" ---\n">>
         \o DocLines(hits[i].document) \o <<"\n">>
         \o HitBlocks(hits, i + 1)

\* The header line of the report.
HeaderOf(searchResults, hits) ==
    <<"Found ">> \o NatToChars(searchResults.found)
    \o <<" results. Showing top ">> \o NatToChars(Len(hits)) \o <<":\n\n">>

\* A faulty responseTextOf: the report is lost and the text is empty.
responseTextOfEmpty(searchResults, hits) == <<>>

\* let responseText, after the loop over the hits.
responseTextOf(searchResults, hits) == HeaderOf(searchResults, hits) \o HitBlocks(hits, 1)

\* The fixed texts.
NoQueryText == <<"Error: Please provide at least one of name_query, vessel_query, or email_query.">>
NoCredentialsText == <<"Error: Typesense credentials not configured.">>
NoResultsText == <<"No results found for your query.">>

\* ------------------------------------------------------ backend failures

\* A thrown value: an Error (with a message and perhaps an errors array) or a
\* primitive string. A sub-error is an Error with a message or a primitive.
ErrorOf(m) == [isError |-> TRUE, message |-> m]
Primitive(m) == [isError |-> FALSE, message |-> m]
Thrown(e, hasErrors, errors) ==
    [isError |-> e.isError, message |-> e.message, hasErrors |-> hasErrors, errors |-> errors]

\* String(e): "Error: message" for an Error ("Error" when the message is
\* empty), the string itself for a primitive string.
StringOf(e) ==
    IF e.isError
    THEN (IF Len(e.message) = 0 THEN <<"Error">> ELSE <<"Error", ": ">> \o e.message)
    ELSE e.message

\* e.message || String(e): a primitive string has no message property.
SubErrorText(e) ==
    IF e.isError /\ Len(e.message) > 0 THEN e.message ELSE StringOf(e)

\* A faulty errorMessageOf: the branch for an aggregate error is missing.
errorMessageOfTopLevelOnly(error) ==
    IF error.isError THEN <<"An error occurred: ">> \o error.message
    ELSE <<"An error occurred: ">> \o StringOf(error)

\* The text the catch block returns for the thrown value error.
errorMessageOf(error) ==
    IF error.isError /\ error.hasErrors
    THEN <<"An aggregate error occurred: ">> \o error.message
         \o <<". Individual errors: ">>
         \o join([i \in 1..Len(error.errors) |-> SubErrorText(error.errors[i])],
                 <<";", " ">>)
    ELSE IF error.isError THEN <<"An error occurred: ">> \o error.message
    ELSE <<"An error occurred: ">> \o StringOf(error)

\* ------------------------------------------------------------ the requests

\* The values a caller gives each slot: absent, empty, or a string.
NameSlot == {Undefined, Str(<<>>), Str(SAl), Str(STrue)}
VesselSlot ==
    {Undefined, Str(<<>>), Str(SEG), Str(S97), Str(S07), Str(S9S), Str(STRUE), Str(SFalse)}
EmailSlot == {Undefined, Str(<<>>), Str(SMail), Str(STrue)}

Requests == [name_query : NameSlot, vessel_query : VesselSlot, email_query : EmailSlot]

\* config.typesense: each parameter is null or set.
Configs == [host : {Undefined, Str(<<"h">>)}, port : {Undefined, Str(<<"8">>)},
            protocol : {Undefined, Str(<<"p">>)}, apiKey : {Undefined, Str(<<"k">>)}]

\* What the backend may throw: an Error, a primitive, or an aggregate Error
\* that carries up to MaxSubErrors sub-errors.
SubErrorPool == {ErrorOf(<<"e1">>), Primitive(<<"s1">>)}
SubErrorSeqs == UNION {[1..n -> SubErrorPool] : n \in 0..MaxSubErrors}
ThrownPool ==
    {Thrown(ErrorOf(<<"timeout">>), FALSE, <<>>), Thrown(Primitive(<<"boom">>), FALSE, <<>>)}
    \cup {Thrown(ErrorOf(<<"all failed">>), TRUE, es) : es \in SubErrorSeqs}

\* The index holds at most MaxIndex records of the pool, in the pool's order.
RECURSIVE Pick(_, _, _)
Pick(pool, chosen, i) ==
    IF i > Len(pool) THEN <<>>
    ELSE (IF i \in chosen THEN <<pool[i]>> ELSE <<>>) \o Pick(pool, chosen, i + 1)
Indexes ==
    {Pick(DocPool, c, 1) : c \in {x \in SUBSET (1..Len(DocPool)) : Cardinality(x) <= MaxIndex}}

\* ---------------------------------------------------------------- the tool

VARIABLES
    config,            \* config.typesense, set at process start
    index,             \* the records of the remote index
    pc,                \* "idle", "exact" (awaiting phase 1), "fuzzy" (awaiting phase 2), "done"
    args,              \* the arguments of the running invocation
    activeQueries,     \* its active queries: <<queryType, query>> in insertion order
    searchParameters,  \* let searchParameters
    searchResults,     \* let searchResults
    hits,              \* let hits
    requests,          \* the search requests this invocation has sent
    replies,           \* what the backend answered to each
    outcome,           \* "pending", "returned" or "thrown" (an exception left the tool)
    result,            \* the text of the returned CallToolResult
    name,              \* request.params.name of the call-tool request being served
    suspended,         \* the locals of the other invocation, which waits at an await
    attempt            \* the loop counter of LlamaParseClient.parseDocument

vars == <<config, index, pc, args, activeQueries, searchParameters, searchResults,
          hits, requests, replies, outcome, result, name, suspended, attempt>>

NoArgs == [name_query |-> Undefined, vessel_query |-> Undefined, email_query |-> Undefined]
\* No other invocation is under way.
NoLocals == [pc |-> "none"]
NoParameters == [q |-> <<>>, per_page |-> 0]
NoEnvelope == [found |-> 0, hits |-> <<>>]

\* The entries of providedQueries whose value is neither undefined nor null.
activeQueriesOf(a) ==
    (IF a.name_query.def THEN << <<"name", a.name_query.str>> >> ELSE <<>>)
    \o (IF a.vessel_query.def THEN << <<"vessel", a.vessel_query.str>> >> ELSE <<>>)
    \o (IF a.email_query.def THEN << <<"email", a.email_query.str>> >> ELSE <<>>)

\* activeQueries[queryType], undefined when the type is not active.
QueryOf(aq, queryType) ==
    IF \E i \in 1..Len(aq) : aq[i][1] = queryType
    THEN Str(aq[CHOOSE i \in 1..Len(aq) : aq[i][1] = queryType][2])
    ELSE Undefined

\* A string, possibly absent, taken as a condition.
TruthyStr(x) == x.def /\ Len(x.str) > 0

\* A faulty CredentialsConfigured: the port is not looked at.
CredentialsConfiguredNoPort(c) ==
    TruthyStr(c.host) /\ TruthyStr(c.protocol) /\ TruthyStr(c.apiKey)

\* The guard on config.typesense passes.
CredentialsConfigured(c) ==
    TruthyStr(c.host) /\ TruthyStr(c.port) /\ TruthyStr(c.protocol) /\ TruthyStr(c.apiKey)

ExactPerPage == 250
FuzzyPerPage == 10

\* The phase 1 request.
ExactParameters(aq) ==
    [q |-> <<"*">>, filter_by |-> filterQueryOf(entriesOf(aq)), per_page |-> ExactPerPage]

\* Object.values(activeQueries).join(' ')
fuzzyQOf(aq) == join([i \in 1..Len(aq) |-> aq[i][2]], <<" ">>)

\* A Set keeps the first occurrence of each element, in insertion order.
Dedup(s) ==
    LET first == {i \in 1..Len(s) : \A j \in 1..(i - 1) : s[j] # s[i]}
        Nth(k) == CHOOSE i \in first : Cardinality({j \in first : j < i}) = k - 1
    IN [k \in 1..Cardinality(first) |-> s[Nth(k)]]

\* fuzzyQueryByFields: the fields of every active type whose query is truthy.
fuzzyQueryByFieldsOf(aq) ==
    Dedup((IF TruthyStr(QueryOf(aq, "name")) THEN personNameFields ELSE <<>>)
          \o (IF TruthyStr(QueryOf(aq, "vessel")) THEN vesselInfoFields ELSE <<>>)
          \o (IF TruthyStr(QueryOf(aq, "email")) THEN emailFields ELSE <<>>))

fuzzyStringFieldsOf(aq) == SelectSeq(fuzzyQueryByFieldsOf(aq), IsStringField)

\* A faulty FuzzyParameters: phase 2 repeats the filtered search of phase 1.
FuzzyParametersRetry(aq) == ExactParameters(aq)

\* The phase 2 request.
FuzzyParameters(aq) ==
    LET fs == fuzzyStringFieldsOf(aq)
    IN [q |-> fuzzyQOf(aq),
        query_by |-> join([i \in 1..Len(fs) |-> <<fs[i]>>], <<",">>),
        per_page |-> FuzzyPerPage]

\* What the backend answers.
Answer(env) == [ok |-> TRUE, env |-> env, error |-> Thrown(Primitive(<<>>), FALSE, <<>>)]
Failure(e) == [ok |-> FALSE, env |-> NoEnvelope, error |-> e]

\* To a filtered search: the records that pass the filter, or a failure; a
\* filter it cannot parse is always a failure.
ExactOutcomes(docs, params) ==
    {Failure(e) : e \in ThrownPool}
    \cup (IF FilterValid(params.filter_by)
          THEN {Answer(ExactEnvelope(docs, params))} ELSE {})

\* To a full-text search: the typo-tolerant match is the backend's own, so any
\* records of the index may match; with no field to search it matches none,
\* or fails.
FuzzyOutcomes(docs, params) ==
    {Failure(e) : e \in ThrownPool}
    \cup {Answer(Envelope(Pick(docs, c, 1), params.per_page)) :
            c \in IF Len(params.query_by) = 0 THEN {{}} ELSE SUBSET (1..Len(docs))}

\* A faulty CatchOf: a failure is taken for a search that found nothing.
CatchOfNoResults(error) == [outcome |-> "returned", text |-> NoResultsText]

\* A faulty documentsAfterSearch: the search takes the first record out of
\* the collection.
documentsAfterSearchDropping(docs) == IF Len(docs) > 0 THEN Tail(docs) ELSE docs

\* documents().search(...) reads the collection: it holds afterwards what it
\* held before.
documentsAfterSearch(docs) == docs

\* The catch block: the failure becomes the returned text.
CatchOf(error) == [outcome |-> "returned", text |-> errorMessageOf(error)]

\* A faulty FinishOf: the report is built even when there is no hit.
FinishOfAlwaysReport(sr, hs) == [outcome |-> "returned", text |-> responseTextOf(sr, hs)]

\* The end of the try block: no hit, or the report.
FinishOf(sr, hs) ==
    [outcome |-> "returned",
     text |-> IF Len(hs) = 0 THEN NoResultsText ELSE responseTextOf(sr, hs)]

\* searchResults.hits || []
hitsOf(sr) == sr.hits

\* A faulty AssignSearchResults: the envelope goes to a variable that shadows
\* the outer one, which keeps what it held.
KeepSearchResults(current, envelope) == current

\* searchResults = await ...search(searchParameters): the outer variable takes
\* the envelope of the search that has just settled.
AssignSearchResults(current, envelope) == envelope

\* A faulty FallsBack: phase 2 is entered whatever phase 1 gave.
FallsBackAlways(hs) == TRUE

\* Phase 2 is entered when phase 1 gave no hit.
FallsBack(hs) == Len(hs) = 0

\* A faulty GuardOf: the check on the active queries is missing.
GuardOfCredentialsOnly(aq, c) ==
    IF ~CredentialsConfigured(c) THEN NoCredentialsText ELSE <<>>

\* A faulty GuardOf: the credentials are checked first.
GuardOfCredentialsFirst(aq, c) ==
    IF ~CredentialsConfigured(c) THEN NoCredentialsText
    ELSE IF Len(aq) = 0 THEN NoQueryText
    ELSE <<>>

\* The synchronous checks that come before the try block.
GuardOf(aq, c) ==
    IF Len(aq) = 0 THEN NoQueryText
    ELSE IF ~CredentialsConfigured(c) THEN NoCredentialsText
    ELSE <<>>

Init ==
    /\ config \in Configs
    /\ index \in Indexes
    /\ pc = "idle"
    /\ args = NoArgs
    /\ activeQueries = <<>>
    /\ searchParameters = NoParameters
    /\ searchResults = NoEnvelope
    /\ hits = <<>>
    /\ requests = <<>>
    /\ replies = <<>>
    /\ outcome = "pending"
    /\ result = <<>>
    /\ name = "get_vessel_personnel_info"
    /\ suspended = NoLocals
    /\ attempt = 0

\* The call of get_vessel_personnel_info(a), up to its first await.
Invoke(a) ==
    /\ pc = "idle"
    /\ args' = a
    /\ LET aq == activeQueriesOf(a)
           rejected == GuardOf(aq, config)
       IN IF Len(rejected) > 0
          THEN /\ pc' = "done"
               /\ outcome' = "returned"
               /\ result' = rejected
               /\ UNCHANGED <<activeQueries, searchParameters, requests>>
          ELSE /\ pc' = "exact"
               /\ activeQueries' = aq
               /\ searchParameters' = ExactParameters(aq)
               /\ requests' = Append(requests, ExactParameters(aq))
               /\ UNCHANGED <<outcome, result>>
    /\ UNCHANGED <<config, index, searchResults, hits, replies>>
    /\ UNCHANGED <<name, suspended, attempt>>

\* The phase 1 search settles: its hits end the invocation, no hit starts
\* phase 2, a failure goes to the catch block.
ExactReply ==
    /\ pc = "exact"
    /\ \E o \in ExactOutcomes(index, searchParameters) :
          /\ replies' = Append(replies, o)
          /\ IF ~o.ok
             THEN /\ pc' = "done"
                  /\ outcome' = CatchOf(o.error).outcome
                  /\ result' = CatchOf(o.error).text
                  /\ UNCHANGED <<searchParameters, searchResults, hits, requests>>
             ELSE LET sr == AssignSearchResults(searchResults, o.env)
                  IN /\ searchResults' = sr
                     /\ hits' = hitsOf(sr)
                     /\ IF FallsBack(hitsOf(sr))
                        THEN /\ pc' = "fuzzy"
                             /\ searchParameters' = FuzzyParameters(activeQueries)
                             /\ requests' = Append(requests, FuzzyParameters(activeQueries))
                             /\ UNCHANGED <<outcome, result>>
                        ELSE /\ pc' = "done"
                             /\ outcome' = FinishOf(sr, hitsOf(sr)).outcome
                             /\ result' = FinishOf(sr, hitsOf(sr)).text
                             /\ UNCHANGED <<searchParameters, requests>>
    /\ index' = documentsAfterSearch(index)
    /\ UNCHANGED <<config, args, activeQueries>>
    /\ UNCHANGED <<name, suspended, attempt>>

\* The phase 2 search settles: whatever it gave ends the invocation.
FuzzyReply ==
    /\ pc = "fuzzy"
    /\ \E o \in FuzzyOutcomes(index, searchParameters) :
          /\ replies' = Append(replies, o)
          /\ pc' = "done"
          /\ IF ~o.ok
             THEN /\ outcome' = CatchOf(o.error).outcome
                  /\ result' = CatchOf(o.error).text
                  /\ UNCHANGED <<searchResults, hits>>
             ELSE LET sr == AssignSearchResults(searchResults, o.env)
                  IN /\ searchResults' = sr
                     /\ hits' = hitsOf(sr)
                     /\ outcome' = FinishOf(sr, hitsOf(sr)).outcome
                     /\ result' = FinishOf(sr, hitsOf(sr)).text
    /\ index' = documentsAfterSearch(index)
    /\ UNCHANGED <<config, args, activeQueries, searchParameters, requests>>
    /\ UNCHANGED <<name, suspended, attempt>>

\* The caller has the result; the invocation's locals are gone.
Return ==
    /\ pc = "done"
    /\ pc' = "idle"
    /\ args' = NoArgs
    /\ activeQueries' = <<>>
    /\ searchParameters' = NoParameters
    /\ searchResults' = NoEnvelope
    /\ hits' = <<>>
    /\ requests' = <<>>
    /\ replies' = <<>>
    /\ outcome' = "pending"
    /\ result' = <<>>
    /\ UNCHANGED <<config, index>>
    /\ UNCHANGED <<name, suspended, attempt>>

Next ==
    \/ \E a \in Requests : Invoke(a)
    \/ ExactReply
    \/ FuzzyReply
    \/ Return

Spec == Init /\ [][Next]_vars

\* The lookup with the backend's side of the contract: a search that has been
\* sent eventually returns or fails (the client is built with
\* connectionTimeoutSeconds: 10, tools.ts:611), and the caller takes the result.
LiveRequests ==
    {a \in Requests : /\ a.name_query \in {Undefined, Str(SAl)}
                      /\ a.vessel_query \in {Undefined, Str(SEG), Str(S97)}
                      /\ a.email_query \in {Undefined, Str(<<>>)}}

LiveInit ==
    /\ Init
    /\ config.host.def /\ config.port.def /\ config.protocol.def
    /\ index \in {<<>>, Pick(DocPool, {1}, 1), Pick(DocPool, {1, 2}, 1)}

LiveNext ==
    \/ \E a \in LiveRequests : Invoke(a)
    \/ ExactReply
    \/ FuzzyReply
    \/ Return

\* ExactReply is enabled exactly when pc = "exact" (the backend can always
\* fail) and every step of it leaves "exact", so weak fairness of ExactReply
\* is []<>(pc # "exact"); it is stated in that form.
LiveSpec ==
    /\ LiveInit
    /\ [][LiveNext]_vars
    /\ []<>(pc # "exact")
    /\ WF_vars(FuzzyReply)
    /\ WF_vars(Return)

\* ------------------------------------- the exact filter as a pure function

\* The filter is built from the entries of activeQueries and read by the
\* backend. The declared type of a query is string, but nothing checks the
\* arguments at run time (tools.ts:142), so a query may hold another type of
\* value; and a query string may hold the characters the filter language uses.
SQuoteBreak == <<"E", "G", Backtick>>
SInjected == <<"E", Backtick, " || ", "imo", ":=", "9", " || ", "class", ":=", Backtick, "G">>
SOperators == <<"(", "E", " || ", "G", ")", " && ", "E">>
NameValues == {VStr(SAl), VNum(7)}
VesselValues ==
    {VStr(SEG), VStr(S97), VStr(SQuoteBreak), VStr(SInjected), VStr(SOperators), VBool(TRUE)}
EmailValues == {VStr(SMail), VStr(SOperators), VNum(0)}

\* Object.entries(activeQueries): the active slots in the order name, vessel,
\* email, at least one of them.
EntriesPool ==
    {e \in {(IF n = VNull THEN <<>> ELSE << <<"name", n>> >>)
            \o (IF v = VNull THEN <<>> ELSE << <<"vessel", v>> >>)
            \o (IF m = VNull THEN <<>> ELSE << <<"email", m>> >>) :
               n \in NameValues \cup {VNull},
               v \in VesselValues \cup {VNull},
               m \in EmailValues \cup {VNull}} : Len(e) > 0}

FilterInit ==
    /\ config = [host |-> Str(<<"h">>), port |-> Str(<<"8">>),
                 protocol |-> Str(<<"p">>), apiKey |-> Str(<<"k">>)]
    /\ index \in Indexes
    /\ pc = "idle"
    /\ args = NoArgs
    /\ activeQueries = <<>>
    /\ searchParameters = NoParameters
    /\ searchResults = NoEnvelope
    /\ hits = <<>>
    /\ requests = <<>>
    /\ replies = <<>>
    /\ outcome = "pending"
    /\ result = <<>>
    /\ name = "get_vessel_personnel_info"
    /\ suspended = NoLocals
    /\ attempt = 0

\* The loop over the entries and the request built from its result.
BuildFilter(entries) ==
    /\ pc = "idle"
    /\ activeQueries' = entries
    /\ LET parameters == [q |-> <<"*">>, filter_by |-> filterQueryOf(entries),
                          per_page |-> ExactPerPage]
       IN /\ searchParameters' = parameters
          /\ requests' = <<parameters>>
    /\ pc' = "exact"
    /\ UNCHANGED <<config, index, args, searchResults, hits, replies, outcome, result>>
    /\ UNCHANGED <<name, suspended, attempt>>

\* The backend reads the filter and answers.
ReadFilter ==
    /\ pc = "exact"
    /\ \E o \in ExactOutcomes(index, searchParameters) :
          /\ replies' = <<o>>
          /\ searchResults' = IF o.ok THEN AssignSearchResults(searchResults, o.env)
                              ELSE searchResults
          /\ hits' = IF o.ok THEN hitsOf(o.env) ELSE hits
    /\ pc' = "done"
    /\ UNCHANGED <<config, index, args, activeQueries, searchParameters, requests,
                   outcome, result>>
    /\ UNCHANGED <<name, suspended, attempt>>

\* The filter and its answer are dropped.
DropFilter ==
    /\ pc = "done"
    /\ pc' = "idle"
    /\ activeQueries' = <<>>
    /\ searchParameters' = NoParameters
    /\ searchResults' = NoEnvelope
    /\ hits' = <<>>
    /\ requests' = <<>>
    /\ replies' = <<>>
    /\ UNCHANGED <<config, index, args, outcome, result>>
    /\ UNCHANGED <<name, suspended, attempt>>

FilterNext ==
    \/ \E entries \in EntriesPool : BuildFilter(entries)
    \/ ReadFilter
    \/ DropFilter

FilterSpec == FilterInit /\ [][FilterNext]_vars

\* ----------------------------------------------------- the call-tool handler

\* The names the switch of the call-tool handler knows, and names it does not.
ToolNames ==
    {"mail_communication", "whatsapp_communication", "get_vessel_personnel_info",
     "google_search", "parse_document_link", "get_user_associated_vessels",
     "get_user_task_list", "get_vessel_details", "get_fleet_details"}
UnknownNames == {"fleet_vessel_lookup", ""}
NoName == "<none>"

\* A faulty toolDefinitions: the list still offers the lookup under its
\* former name.
toolDefinitionsWithFormerName ==
    <<"mail_communication", "whatsapp_communication", "fleet_vessel_lookup",
      "google_search", "parse_document_link", "get_vessel_details",
      "get_fleet_details", "get_user_task_list">>

\* The names of the tools the list-tools handler returns, in the order of
\* the list (the entry of get_user_associated_vessels is commented out).
toolDefinitions ==
    <<"mail_communication", "whatsapp_communication", "get_vessel_personnel_info",
      "google_search", "parse_document_link", "get_vessel_details",
      "get_fleet_details", "get_user_task_list">>

ListedNames == {toolDefinitions[i] : i \in 1..Len(toolDefinitions)}

\* request.params.arguments: undefined, or an object with the query slots.
UndefinedArguments == [undefined |-> TRUE]
CallArguments ==
    {UndefinedArguments}
    \cup {a \in Requests : /\ a.name_query \in {Undefined, Str(SAl)}
                           /\ a.vessel_query \in {Undefined, Str(<<>>), Str(SEG), Str(S97)}
                           /\ a.email_query \in {Undefined, Str(SMail)}}

\* throw new Error('Unknown tool: ' + name)
UnknownToolError(n) == Thrown(ErrorOf(<<"Unknown tool: ", n>>), FALSE, <<>>)

\* The TypeError of destructuring undefined; String() of it is the text.
DestructureError ==
    Thrown(Primitive(<<"TypeError", ": ",
                       "Cannot destructure property 'name_query' of 'args' as it is undefined.">>),
           FALSE, <<>>)

\* What a handler other than the lookup ends with: a result with a text block,
\* or an exception.
HandlerOutcomes ==
    {[ok |-> TRUE, text |-> t, error |-> Thrown(Primitive(<<>>), FALSE, <<>>)] :
        t \in {<<"done">>, <<"Error: ", "failed">>}}
    \cup {[ok |-> FALSE, text |-> <<>>, error |-> e] : e \in ThrownPool}

\* A faulty dispatchCatchOf: the exception is thrown on to the transport.
dispatchCatchOfRethrow(n, error) == [outcome |-> "thrown", text |-> <<>>]

\* The catch block of the call-tool handler: the exception becomes a text.
dispatchCatchOf(n, error) ==
    [outcome |-> "returned",
     text |-> <<"Error calling tool ", n, ": ">> \o StringOf(error)]

DispatchInit ==
    /\ config \in {c \in Configs : c.host.def /\ c.port.def /\ c.protocol.def}
    /\ index \in Indexes
    /\ pc = "idle"
    /\ args = NoArgs
    /\ activeQueries = <<>>
    /\ searchParameters = NoParameters
    /\ searchResults = NoEnvelope
    /\ hits = <<>>
    /\ requests = <<>>
    /\ replies = <<>>
    /\ outcome = "pending"
    /\ result = <<>>
    /\ name = NoName
    /\ suspended = NoLocals
    /\ attempt = 0

\* const { name, arguments: args } = request.params
Receive(n, a) ==
    /\ pc = "idle"
    /\ name = NoName
    /\ name' = n
    /\ args' = a
    /\ UNCHANGED <<config, index, pc, activeQueries, searchParameters, searchResults,
                   hits, requests, replies, outcome, result, suspended, attempt>>

\* case 'get_vessel_personnel_info' with arguments: the lookup runs up to its
\* first await, and what it returns is what the handler returns.
DispatchLookup ==
    /\ name = "get_vessel_personnel_info"
    /\ args # UndefinedArguments
    /\ Invoke(args)

\* case 'get_vessel_personnel_info' without arguments: the destructuring in
\* the first line of the lookup throws.
DispatchLookupNoArguments ==
    /\ pc = "idle"
    /\ name = "get_vessel_personnel_info"
    /\ args = UndefinedArguments
    /\ pc' = "done"
    /\ outcome' = dispatchCatchOf(name, DestructureError).outcome
    /\ result' = dispatchCatchOf(name, DestructureError).text
    /\ UNCHANGED <<config, index, args, activeQueries, searchParameters, searchResults,
                   hits, requests, replies, name, suspended, attempt>>

\* Any other case: the handler of that tool is awaited.
DispatchOther ==
    /\ pc = "idle"
    /\ name \in ToolNames \ {"get_vessel_personnel_info"}
    /\ pc' = "handler"
    /\ UNCHANGED <<config, index, args, activeQueries, searchParameters, searchResults,
                   hits, requests, replies, outcome, result, name, suspended, attempt>>

\* The other handler settles: its result is returned, its exception caught.
HandlerSettles ==
    /\ pc = "handler"
    /\ \E o \in HandlerOutcomes :
          IF o.ok
          THEN /\ outcome' = "returned"
               /\ result' = o.text
          ELSE /\ outcome' = dispatchCatchOf(name, o.error).outcome
               /\ result' = dispatchCatchOf(name, o.error).text
    /\ pc' = "done"
    /\ UNCHANGED <<config, index, args, activeQueries, searchParameters, searchResults,
                   hits, requests, replies, name, suspended, attempt>>

\* default: the name is not known.
DispatchUnknown ==
    /\ pc = "idle"
    /\ name \notin ToolNames \cup {NoName}
    /\ pc' = "done"
    /\ outcome' = dispatchCatchOf(name, UnknownToolError(name)).outcome
    /\ result' = dispatchCatchOf(name, UnknownToolError(name)).text
    /\ UNCHANGED <<config, index, args, activeQueries, searchParameters, searchResults,
                   hits, requests, replies, name, suspended, attempt>>

\* The result goes to the caller; the handler is ready for the next request.
Respond ==
    /\ pc = "done"
    /\ outcome = "returned"
    /\ pc' = "idle"
    /\ name' = NoName
    /\ args' = NoArgs
    /\ activeQueries' = <<>>
    /\ searchParameters' = NoParameters
    /\ searchResults' = NoEnvelope
    /\ hits' = <<>>
    /\ requests' = <<>>
    /\ replies' = <<>>
    /\ outcome' = "pending"
    /\ result' = <<>>
    /\ UNCHANGED <<config, index, suspended, attempt>>

DispatchNext ==
    \/ \E n \in ListedNames \cup ToolNames \cup UnknownNames, a \in CallArguments : Receive(n, a)
    \/ DispatchLookup
    \/ DispatchLookupNoArguments
    \/ DispatchOther
    \/ HandlerSettles
    \/ DispatchUnknown
    \/ ExactReply
    \/ FuzzyReply
    \/ Respond

DispatchSpec == DispatchInit /\ [][DispatchNext]_vars

\* ------------------------------------------------- concurrent invocations

\* The call-tool handler is async: a second request may be served while a
\* first one waits at an await. JavaScript runs each invocation from one await
\* to the next without interruption, and every variable of the lookup is a
\* local of the invocation (the client included, tools.ts:604); config and the
\* index are the only things the invocations have in common.
Locals ==
    [pc |-> pc, args |-> args, activeQueries |-> activeQueries,
     searchParameters |-> searchParameters, searchResults |-> searchResults,
     hits |-> hits, requests |-> requests, replies |-> replies,
     outcome |-> outcome, result |-> result]
IdleLocals ==
    [pc |-> "idle", args |-> NoArgs, activeQueries |-> <<>>,
     searchParameters |-> NoParameters, searchResults |-> NoEnvelope,
     hits |-> <<>>, requests |-> <<>>, replies |-> <<>>,
     outcome |-> "pending", result |-> <<>>]

\* A faulty resumeOf: activeQueries is kept outside the function, so the
\* invocation that resumes finds what the last one to run left there.
resumeOfSharedQueries(frame, current) ==
    [frame EXCEPT !.activeQueries = current.activeQueries]

\* The invocation that resumes finds its locals as it left them.
resumeOf(frame, current) == frame

ConcurrentRequests ==
    {[name_query |-> Undefined, vessel_query |-> Str(SEG), email_query |-> Undefined],
     [name_query |-> Undefined, vessel_query |-> Undefined, email_query |-> Str(STrue)],
     [name_query |-> Str(SAl), vessel_query |-> Str(S9S), email_query |-> Undefined]}

ConcurrentInit ==
    /\ config = [host |-> Str(<<"h">>), port |-> Str(<<"8">>),
                 protocol |-> Str(<<"p">>), apiKey |-> Str(<<"k">>)]
    /\ index = Pick(DocPool, {1, 2}, 1)
    /\ pc = "idle"
    /\ args = NoArgs
    /\ activeQueries = <<>>
    /\ searchParameters = NoParameters
    /\ searchResults = NoEnvelope
    /\ hits = <<>>
    /\ requests = <<>>
    /\ replies = <<>>
    /\ outcome = "pending"
    /\ result = <<>>
    /\ name = "get_vessel_personnel_info"
    /\ suspended = IdleLocals
    /\ attempt = 0

\* The running invocation waits (or has not started, or is over) and the
\* event loop runs the other one.
Switch ==
    /\ suspended # NoLocals
    /\ LET frame == resumeOf(suspended, Locals)
       IN /\ pc' = frame.pc
          /\ args' = frame.args
          /\ activeQueries' = frame.activeQueries
          /\ searchParameters' = frame.searchParameters
          /\ searchResults' = frame.searchResults
          /\ hits' = frame.hits
          /\ requests' = frame.requests
          /\ replies' = frame.replies
          /\ outcome' = frame.outcome
          /\ result' = frame.result
    /\ suspended' = Locals
    /\ UNCHANGED <<config, index, name, attempt>>

ConcurrentNext ==
    \/ \E a \in ConcurrentRequests : Invoke(a)
    \/ ExactReply
    \/ FuzzyReply
    \/ Switch

ConcurrentSpec == ConcurrentInit /\ [][ConcurrentNext]_vars


\* ------------------------------------------------------------- the claims

\* What an invocation has seen so far.
ExactAnswered == Len(replies) >= 1 /\ replies[1].ok
ExactHits == replies[1].env.hits
FuzzyAnswered == Len(replies) = 2 /\ replies[2].ok
FuzzyHits == replies[2].env.hits
IsFuzzyRequest(r) == "query_by" \in DOMAIN r
IsExactRequest(r) == "filter_by" \in DOMAIN r

\* C1: whenever the exact-phase search returns at least one hit, no fuzzy
\* search is sent in that invocation, and the invocation ends with the report
\* rendered from the exact-phase hits.
C1_ExactPrecedence ==
    (ExactAnswered /\ Len(ExactHits) > 0) =>
        /\ \A i \in 1..Len(requests) : ~IsFuzzyRequest(requests[i])
        /\ Len(requests) = 1
        /\ pc = "done"
        /\ outcome = "returned"
        /\ result = responseTextOf(replies[1].env, ExactHits)

C1_Witness ==
    /\ pc = "done"
    /\ ExactAnswered
    /\ Len(ExactHits) = 2

\* C2: a fuzzy search is sent only after the exact phase answered with zero
\* hits, and once the fuzzy phase has answered with hits the response is the
\* report of the fuzzy result: its records and its total in the header.
C2_FuzzyOnlyAfterZeroHits ==
    /\ (\E i \in 1..Len(requests) : IsFuzzyRequest(requests[i])) =>
          /\ Len(requests) = 2
          /\ IsExactRequest(requests[1])
          /\ IsFuzzyRequest(requests[2])
          /\ ExactAnswered
          /\ Len(ExactHits) = 0
    /\ (FuzzyAnswered /\ Len(FuzzyHits) > 0) =>
          /\ pc = "done"
          /\ outcome = "returned"
          /\ result = HeaderOf(replies[2].env, FuzzyHits) \o HitBlocks(FuzzyHits, 1)
          /\ result # responseTextOf(replies[1].env, ExactHits)

C2_Witness ==
    /\ pc = "done"
    /\ ExactAnswered
    /\ Len(ExactHits) = 0
    /\ FuzzyAnswered
    /\ Len(FuzzyHits) = 2

\* One clause, as the backend reads it alone, holds of the record.
ClauseHoldsOf(clause, doc) ==
    LET r == PClause(clause, doc, 1) IN r.ok /\ r.pos = Len(clause) + 1 /\ r.val

\* The record matches the query in at least one field of the type's group.
TypeMatches(queryType, query, doc) ==
    LET parts == filterPartsOf(queryType, query)
    IN \E k \in 1..Len(parts) : ClauseHoldsOf(parts[k], doc)

\* The record matches every active query, each in its own group.
EveryTypeMatches(aq, doc) ==
    \A i \in 1..Len(aq) : TypeMatches(aq[i][1], aq[i][2], doc)

\* C3: the exact filter is the conjunction over the active query types of one
\* group per type, each the disjunction of the type's clauses: the records the
\* exact phase answers with are exactly the records of the index that, for
\* every active type, satisfy at least one clause of that type's group.
C3_AndAcrossTypesOrWithin ==
    ExactAnswered =>
        LET Hit(d) == EveryTypeMatches(activeQueries, d)
            expected == SelectSeq(index, Hit)
        IN /\ Len(ExactHits) = Len(expected)
           /\ \A i \in 1..Len(expected) : ExactHits[i].document = expected[i]
           /\ replies[1].env.found = Len(expected)

\* Two types are active, one record of the index matches both and another
\* matches only one of them.
C3_Witness ==
    /\ ExactAnswered
    /\ Len(activeQueries) >= 2
    /\ Len(ExactHits) = 1
    /\ \E i \in 1..Len(index) :
          /\ ~EveryTypeMatches(activeQueries, index[i])
          /\ \E k \in 1..Len(activeQueries) :
                TypeMatches(activeQueries[k][1], activeQueries[k][2], index[i])

\* C4: a request with all three slots absent returns the validation message
\* and sends no request to the backend.
C4_NoQueryRejected ==
    (pc # "idle" /\ ~args.name_query.def /\ ~args.vessel_query.def /\ ~args.email_query.def) =>
        /\ pc = "done"
        /\ outcome = "returned"
        /\ result = NoQueryText
        /\ requests = <<>>
        /\ replies = <<>>

C4_Witness ==
    /\ pc = "done"
    /\ args = NoArgs
    /\ CredentialsConfigured(config)
    /\ result = NoQueryText

\* The request with every empty-string slot taken away.
DropEmpty(a) ==
    [name_query |-> IF TruthyStr(a.name_query) THEN a.name_query ELSE Undefined,
     vessel_query |-> IF TruthyStr(a.vessel_query) THEN a.vessel_query ELSE Undefined,
     email_query |-> IF TruthyStr(a.email_query) THEN a.email_query ELSE Undefined]

\* C5: a request with an empty string in a slot and a populated slot beside it
\* behaves as the request without the empty slot: the same rejection when the
\* credentials are absent, otherwise the same exact filter and the same fuzzy
\* request.
C5_EmptySlotOmission ==
    LET aq == activeQueriesOf(DropEmpty(args))
    IN (pc # "idle" /\ Len(aq) > 0) =>
          IF Len(GuardOf(aq, config)) > 0
          THEN requests = <<>> /\ result = GuardOf(aq, config)
          ELSE /\ Len(requests) >= 1
               /\ requests[1] = ExactParameters(aq)
               /\ Len(requests) >= 2 => requests[2] = FuzzyParameters(aq)

\* Some connection parameter of the backend is absent.
ParameterAbsent ==
    ~config.host.def \/ ~config.port.def \/ ~config.protocol.def \/ ~config.apiKey.def
SomeSlotSupplied == args.name_query.def \/ args.vessel_query.def \/ args.email_query.def

\* C6 as stated: with a connection parameter absent the invocation returns the
\* credentials text and sends no request.
C6_CredentialsTextAlways ==
    (pc # "idle" /\ ParameterAbsent) =>
        /\ pc = "done"
        /\ result = NoCredentialsText
        /\ requests = <<>>

\* C6, amended: with a connection parameter absent the invocation sends no
\* request to the backend in any case, and it returns the credentials text
\* when at least one query slot is supplied (the validation message when none is).
C6_NoRequestWithoutCredentials ==
    (pc # "idle" /\ ParameterAbsent) =>
        /\ pc = "done"
        /\ outcome = "returned"
        /\ requests = <<>>
        /\ replies = <<>>
        /\ SomeSlotSupplied => result = NoCredentialsText
        /\ ~SomeSlotSupplied => result = NoQueryText

\* Only the port is absent, and a query is supplied.
C6_Witness ==
    /\ pc = "done"
    /\ ~config.port.def /\ config.host.def /\ config.protocol.def /\ config.apiKey.def
    /\ args.vessel_query = Str(SEG)
    /\ result = NoCredentialsText

\* The last reply of the backend is a failure.
LastFailed == Len(replies) >= 1 /\ ~replies[Len(replies)].ok
LastError == replies[Len(replies)].error

\* C7: a failure of either search ends the invocation with one returned text
\* and no exception leaves the tool; for an aggregate error the text is the
\* top-level message followed by the message of every sub-error, joined by '; '.
C7_FailureReturnedAsText ==
    LastFailed =>
        /\ pc = "done"
        /\ outcome = "returned"
        /\ Len(result) > 0
        /\ Len(requests) = Len(replies)
        /\ (LastError.isError /\ LastError.hasErrors) =>
              result = <<"An aggregate error occurred: ">> \o LastError.message
                       \o <<". Individual errors: ">>
                       \o join([i \in 1..Len(LastError.errors) |-> LastError.errors[i].message],
                               <<";", " ">>)

\* The fuzzy search fails with an aggregate error of two sub-errors.
C7_Witness ==
    /\ pc = "done"
    /\ Len(replies) = 2
    /\ LastFailed
    /\ LastError.hasErrors
    /\ Len(LastError.errors) = 2
    /\ LastError.errors[1] # LastError.errors[2]

\* C8: when the exact phase and the fuzzy phase both answer with zero hits,
\* the invocation returns exactly the no-results sentence.
C8_NoResultsSentence ==
    (ExactAnswered /\ FuzzyAnswered /\ Len(ExactHits) = 0 /\ Len(FuzzyHits) = 0) =>
        /\ pc = "done"
        /\ outcome = "returned"
        /\ result = <<"No results found for your query.">>

\* Both phases answer with zero hits although the index holds records.
C8_Witness ==
    /\ pc = "done"
    /\ ExactAnswered /\ FuzzyAnswered
    /\ Len(ExactHits) = 0 /\ Len(FuzzyHits) = 0
    /\ Len(index) > 0

\* The exact filter the invocation has sent.
SentFilter == requests[1].filter_by
ExactSent == Len(requests) >= 1 /\ IsExactRequest(requests[1])

\* The positions of the filter that hold the field name f.
PositionsOf(f) == {p \in 1..Len(SentFilter) : SentFilter[p] = f}

\* At position p the filter holds the clause f:=value, value unquoted, and
\* the clause ends there.
UnquotedClauseAt(p, value) ==
    /\ p + 1 + Len(value) < Len(SentFilter)
    /\ SentFilter[p + 1] = ":="
    /\ SubSeq(SentFilter, p + 2, p + 1 + Len(value)) = value
    /\ SentFilter[p + 2 + Len(value)] \in {" || ", ")"}

\* The parentheses around the group of the vessel query: the group is the one
\* that holds the clause on vesselName.
VesselNameAt == CHOOSE p \in PositionsOf("vesselName") : TRUE
VesselGroupOpen ==
    CHOOSE o \in 1..VesselNameAt :
        SentFilter[o] = "(" /\ \A k \in (o + 1)..VesselNameAt : SentFilter[k] # "("
VesselGroupClose ==
    CHOOSE e \in VesselNameAt..Len(SentFilter) :
        SentFilter[e] = ")" /\ \A k \in VesselNameAt..(e - 1) : SentFilter[k] # ")"
InVesselGroup(p) == VesselGroupOpen < p /\ p < VesselGroupClose

\* The decimal digits of the integer that the integer string s writes: no
\* plus sign and no leading zero.
RECURSIVE StripZeros(_)
StripZeros(s) == IF Len(s) > 1 /\ s[1] = "0" THEN StripZeros(Tail(s)) ELSE s
CanonicalInteger(s) ==
    IF s[1] = "-" THEN <<"-">> \o StripZeros(Tail(s))
    ELSE IF s[1] = "+" THEN StripZeros(Tail(s))
    ELSE StripZeros(s)

\* C9: a vessel query that is a valid integer produces the clause
\* imo:=<integer> (a numeric equality) in the vessel group, and no filter ever
\* holds a backtick-quoted clause on imo or isV3.
C9_NumericCoercion ==
    ExactSent =>
        /\ (args.vessel_query.def /\ IsInteger(args.vessel_query.str)) =>
              \E p \in PositionsOf("imo") :
                  /\ UnquotedClauseAt(p, CanonicalInteger(args.vessel_query.str))
                  /\ InVesselGroup(p)
        /\ \A p \in PositionsOf("imo") \cup PositionsOf("isV3") :
              SentFilter[p + 1] = ":=" /\ SentFilter[p + 2] # Backtick

\* The vessel query is the integer string 07 and a name query is supplied with it.
C9_Witness ==
    /\ pc = "exact"
    /\ args.vessel_query = Str(S07)
    /\ args.name_query = Str(SAl)
    /\ Cardinality(PositionsOf("imo")) = 1

\* The string equals the lower-case literal when case is ignored.
EqualsIgnoringCase(q, literal) ==
    Len(q) = Len(literal) /\ \A i \in 1..Len(q) : q[i] \in {literal[i], UpperChar(literal[i])}

\* C10: the filter holds an isV3 clause exactly when the vessel query equals
\* 'true' or 'false' with case ignored (isV3 is in the vessel group only, so a
\* name or email query never gives one); there is then one such clause and its
\* value is the literal in lower case.
C10_BooleanCoercion ==
    ExactSent =>
        LET q == args.vessel_query
            isTrue == q.def /\ EqualsIgnoringCase(q.str, STrue)
            isFalse == q.def /\ EqualsIgnoringCase(q.str, SFalse)
        IN /\ (PositionsOf("isV3") # {}) <=> (isTrue \/ isFalse)
           /\ Cardinality(PositionsOf("isV3")) <= 1
           /\ \A p \in PositionsOf("isV3") :
                 /\ UnquotedClauseAt(p, IF isTrue THEN STrue ELSE SFalse)
                 /\ InVesselGroup(p)

\* The vessel query is 'TRUE' in upper case, and the name and email queries
\* are 'true'.
C10_Witness ==
    /\ pc = "exact"
    /\ args.vessel_query = Str(STRUE)
    /\ args.name_query = Str(STrue)
    /\ args.email_query = Str(STrue)
    /\ Cardinality(PositionsOf("isV3")) = 1

\* A name query and an email query 'true' without a vessel query.
C10_WitnessNoVessel ==
    /\ pc = "exact"
    /\ ~args.vessel_query.def
    /\ args.name_query = Str(STrue)
    /\ args.email_query = Str(STrue)
    /\ PositionsOf("isV3") = {}

\* The invocation has returned a report.
IsReport == pc = "done" /\ Len(result) > 0 /\ result[1] = "Found "

\* The positions of the report where the block of a hit starts, and the block
\* of the i-th hit: from its '--- Result' line to the next one.
BlockStarts == {p \in 1..Len(result) : result[p] = "--- Result "}
BlockStart(i) == CHOOSE p \in BlockStarts : Cardinality({q \in BlockStarts : q < p}) = i - 1
BlockOf(i) ==
    SubSeq(result, BlockStart(i),
           IF i < Cardinality(BlockStarts) THEN BlockStart(i + 1) - 1 ELSE Len(result))

\* The block holds the text at the start of a line.
LineStartsWith(block, text) ==
    \E p \in 2..Len(block) :
        /\ block[p - 1] \in {"\n", " ---\n"}
        /\ p + Len(text) - 1 <= Len(block)
        /\ SubSeq(block, p, p + Len(text) - 1) = text

\* The value is empty: an empty string, an empty list, null or undefined.
IsEmptyValue(v) ==
    \/ v.t = "null"
    \/ v.t = "string" /\ Len(v.s) = 0
    \/ v.t = "array" /\ Len(v.a) = 0

\* C11: in the report a field whose value is empty (empty string, empty list,
\* null or undefined) prints no line, and a field that holds a list prints one
\* line with its elements joined by ', '.
C11_EmptyOmittedListsJoined ==
    IsReport =>
        /\ Cardinality(BlockStarts) = Len(hits)
        /\ \A i \in 1..Len(hits) :
              LET doc == hits[i].document
              IN \A k \in 1..Len(doc) :
                    LET label == displayKeyOf(doc[k][1]) \o <<": ">>
                        v == doc[k][2]
                    IN /\ IsEmptyValue(v) => ~LineStartsWith(BlockOf(i), label)
                       /\ (v.t = "array" /\ Len(v.a) > 0) =>
                             LineStartsWith(BlockOf(i),
                                 label \o join(v.a, <<",", " ">>) \o <<"\n">>)

\* A slot holds a query that is not the empty string.
SomeSlotPopulated ==
    TruthyStr(args.name_query) \/ TruthyStr(args.vessel_query) \/ TruthyStr(args.email_query)

\* C12: an invocation with a populated slot and configured credentials sends
\* exactly one exact search, first, and at most one fuzzy search after the
\* exact search has answered: never more than two requests, and a fuzzy
\* search that finds nothing ends the invocation with no further request.
C12_RequestBudget ==
    /\ Len(requests) <= 2
    /\ Len(replies) <= Len(requests)
    /\ (pc # "idle" /\ SomeSlotPopulated /\ CredentialsConfigured(config)) =>
          Len(requests) >= 1
    /\ Len(requests) >= 1 =>
          /\ IsExactRequest(requests[1])
          /\ ~IsFuzzyRequest(requests[1])
    /\ Len(requests) = 2 =>
          /\ IsFuzzyRequest(requests[2])
          /\ ~IsExactRequest(requests[2])
          /\ Len(replies) >= 1
    /\ (FuzzyAnswered /\ Len(FuzzyHits) = 0) =>
          /\ pc = "done"
          /\ Len(requests) = 2
          /\ outcome = "returned"

\* Two slots are populated, both searches are sent and the second finds
\* nothing.
C12_Witness ==
    /\ pc = "done"
    /\ TruthyStr(args.name_query) /\ TruthyStr(args.vessel_query)
    /\ Len(requests) = 2
    /\ IsExactRequest(requests[1]) /\ IsFuzzyRequest(requests[2])
    /\ FuzzyAnswered
    /\ Len(FuzzyHits) = 0

\* The exact search has failed.
ExactFailed == Len(replies) >= 1 /\ ~replies[1].ok

\* C16: a failure of the exact search is not taken for zero hits: no fuzzy
\* search follows it, and the invocation ends with the error text of that
\* failure, never with the no-results sentence or a report.
C16_ExactFailureEndsInError ==
    ExactFailed =>
        /\ pc = "done"
        /\ Len(requests) = 1
        /\ Len(replies) = 1
        /\ \A i \in 1..Len(requests) : ~IsFuzzyRequest(requests[i])
        /\ result = errorMessageOf(replies[1].error)
        /\ result[1] \in {"An error occurred: ", "An aggregate error occurred: "}
        /\ result # NoResultsText
        /\ ~IsReport

\* The exact search fails on an index that holds a record its filter matches.
C16_Witness ==
    /\ pc = "done"
    /\ ExactFailed
    /\ ExactSent
    /\ FilterValid(SentFilter)
    /\ \E i \in 1..Len(index) : FilterHolds(SentFilter, index[i])

\* The filter compares some field to the empty string.
HasEmptyLiteral(filter_by) ==
    \E p \in 1..(Len(filter_by) - 1) : filter_by[p] = Backtick /\ filter_by[p + 1] = Backtick

\* C15: a request whose supplied slots are all empty strings is rejected with
\* the validation message and sends no request, and no request ever carries
\* an empty string as a query.
C15_AllEmptyRejected ==
    /\ (pc # "idle" /\ SomeSlotSupplied /\ ~SomeSlotPopulated) =>
          /\ pc = "done"
          /\ result = NoQueryText
          /\ Len(requests) = 0
    /\ \A i \in 1..Len(requests) :
          IsExactRequest(requests[i]) => ~HasEmptyLiteral(requests[i].filter_by)

\* The record holds the whole string query in the field f: as the field's
\* value, or as one element of it when the field is a list.
HoldsLiteral(doc, f, query) ==
    LET v == ValueOf(doc, f)
    IN \/ v.t = "string" /\ v.s = query
       \/ v.t = "array" /\ \E i \in 1..Len(v.a) : v.a[i] = query

\* The record matches the query string taken as one literal: in a string field
\* of the type's group, or by the numeric or the boolean clause of the group.
TypeMatchesLiteral(queryType, query, doc) ==
    LET fields == searchFieldsOf(queryType)
        numericQuery == parseInt(query)
        lowered == toLowerCase(query)
    IN \/ \E i \in 1..Len(fields) :
             IsStringField(fields[i]) /\ HoldsLiteral(doc, fields[i], query)
       \/ /\ queryType # "email" /\ ~isNaN(numericQuery) /\ includes(fields, "imo")
          /\ ValueOf(doc, "imo") = VNum(numericQuery.val)
       \/ /\ queryType # "email" /\ lowered \in {STrue, SFalse} /\ includes(fields, "isV3")
          /\ ValueOf(doc, "isV3") = VBool(lowered = STrue)

\* The filter has been built from the entries.
FilterBuilt == pc \in {"exact", "done"} /\ Len(requests) = 1 /\ Len(activeQueries) > 0

\* C17: whatever the text of a query string, backticks, '&&', '||' and
\* parentheses included, the backend reads the exact filter as one OR-group
\* per active type joined by AND, each string clause comparing its field to
\* the whole query string: the filter is well formed and a record passes it
\* exactly when it matches every query string taken as one literal.
C17_QueryIsOpaqueLiteral ==
    (FilterBuilt /\ \A k \in 1..Len(activeQueries) : IsStringValue(activeQueries[k][2])) =>
        /\ FilterValid(SentFilter)
        /\ \A i \in 1..Len(index) :
              FilterHolds(SentFilter, index[i])
                  <=> \A k \in 1..Len(activeQueries) :
                         TypeMatchesLiteral(activeQueries[k][1], activeQueries[k][2].s, index[i])

\* The filter holds '(' directly followed by ')'.
HasEmptyGroup(filter_by) ==
    \E p \in 1..(Len(filter_by) - 1) : filter_by[p] = "(" /\ filter_by[p + 1] = ")"

\* The entries whose query yields clauses: the string queries.
WithClauses(entries) ==
    LET Yields(e) == IsStringValue(e[2]) /\ Len(filterPartsOf(e[1], e[2].s)) > 0
    IN SelectSeq(entries, Yields)

\* C18: the exact filter never holds an empty group: a query that yields no
\* clause contributes nothing to it (no group, no dangling '&&'), so the filter
\* is the filter of the entries that do yield clauses, and it is empty when
\* there is none.
C18_NoEmptyGroup ==
    FilterBuilt =>
        /\ ~HasEmptyGroup(SentFilter)
        /\ SentFilter = filterQueryOf(WithClauses(activeQueries))
        /\ Len(combinedFilterPartsOf(activeQueries)) = Len(WithClauses(activeQueries))
        /\ Len(WithClauses(activeQueries)) = 0 => SentFilter = <<>>
        /\ Len(WithClauses(activeQueries)) > 0 =>
              /\ SentFilter[1] = "("
              /\ SentFilter[Len(SentFilter)] = ")"
              /\ \A p \in 1..(Len(SentFilter) - 1) :
                    ~(SentFilter[p] = " && " /\ SentFilter[p + 1] = " && ")

\* A query that is not a string stands between two that are: the filter has
\* two groups.
C18_Witness ==
    /\ FilterBuilt
    /\ Len(activeQueries) = 3
    /\ IsStringValue(activeQueries[1][2])
    /\ ~IsStringValue(activeQueries[2][2])
    /\ IsStringValue(activeQueries[3][2])
    /\ Len(combinedFilterPartsOf(activeQueries)) = 2

\* No query is a string: the filter is empty.
C18_WitnessNoGroup ==
    /\ FilterBuilt
    /\ \A k \in 1..Len(activeQueries) : ~IsStringValue(activeQueries[k][2])
    /\ SentFilter = <<>>

\* C19: the filter holds a clause on imo only when the query of a type other
\* than email is an integer string (imo is a vessel field, so the vessel
\* query), and the clause then compares imo to that integer; a query that is
\* not an integer, such as digits followed by other characters, gives none.
C19_ImoOnlyForIntegers ==
    ExactSent =>
        LET q == args.vessel_query
        IN /\ (PositionsOf("imo") # {}) => (q.def /\ IsInteger(q.str))
           /\ \A p \in PositionsOf("imo") :
                 IsInteger(q.str) => UnquotedClauseAt(p, CanonicalInteger(q.str))

\* The fuzzy request the invocation has sent.
FuzzySent == Len(requests) = 2 /\ IsFuzzyRequest(requests[2])

\* The fields the fuzzy search is asked to look in.
QueryByFields(query_by) == SelectSeq(query_by, LAMBDA x : x # ",")

\* C20: the free-text query of the fuzzy request is the active query strings
\* joined by single spaces in the order name, vessel, email; its query_by is
\* the union without repetition of the field groups of the active types less
\* imo and isV3; and its page size is 10. The active queries are the populated
\* slots.
C20_FuzzyRequestShape ==
    FuzzySent =>
        LET aq == activeQueriesOf(DropEmpty(args))
            fields == QueryByFields(requests[2].query_by)
            wanted == UNION {{searchFieldsOf(aq[k][1])[i] : i \in 1..Len(searchFieldsOf(aq[k][1]))}
                                : k \in 1..Len(aq)} \ {"imo", "isV3"}
        IN /\ requests[2].q = join([k \in 1..Len(aq) |-> aq[k][2]], <<" ">>)
           /\ {fields[i] : i \in 1..Len(fields)} = wanted
           /\ \A i, j \in 1..Len(fields) : fields[i] = fields[j] => i = j
           /\ requests[2].per_page = 10

\* The call-tool handler has dealt with the request.
Dispatched == name # NoName /\ pc = "done"

\* C13: the call-tool handler never lets a failure out as an exception:
\* whatever the tool name, known or not, and whatever the handler does, an
\* exception for missing arguments included, the request ends with a returned
\* result that holds a text; an unknown name and a handler's exception give
\* the text 'Error calling tool <name>: <exception>'.
C13_DispatcherAlwaysReturnsText ==
    /\ outcome # "thrown"
    /\ Dispatched =>
          /\ outcome = "returned"
          /\ Len(result) > 0
          /\ name \notin ToolNames =>
                result = <<"Error calling tool ", name, ": ", "Error", ": ",
                           "Unknown tool: ", name>>
          /\ (name = "get_vessel_personnel_info" /\ args = UndefinedArguments) =>
                /\ SubSeq(result, 1, 3) = <<"Error calling tool ", name, ": ">>
                /\ Len(requests) = 0

\* An unknown name has been answered.
C13_Witness ==
    /\ Dispatched
    /\ name = "fleet_vessel_lookup"
    /\ outcome = "returned"

\* The lookup was called without arguments and the request has been answered.
C13_WitnessNoArguments ==
    /\ Dispatched
    /\ name = "get_vessel_personnel_info"
    /\ args = UndefinedArguments
    /\ outcome = "returned"

\* Another handler threw an aggregate error and the request has been answered.
C13_WitnessHandlerThrew ==
    /\ Dispatched
    /\ name = "google_search"
    /\ result = <<"Error calling tool ", name, ": ", "Error", ": ", "all failed">>

\* What an invocation with the arguments a does when it runs alone and the
\* backend has answered rs so far: the requests it has sent, whether it is
\* over, and the text it returns.
AloneRejected(a) == Len(GuardOf(activeQueriesOf(a), config)) > 0
AloneRequests(a, rs) ==
    LET aq == activeQueriesOf(a)
    IN IF AloneRejected(a) THEN <<>>
       ELSE <<ExactParameters(aq)>>
            \o (IF Len(rs) >= 1 /\ rs[1].ok /\ Len(rs[1].env.hits) = 0
                THEN <<FuzzyParameters(aq)>> ELSE <<>>)
AloneOver(a, rs) == AloneRejected(a) \/ (Len(rs) >= 1 /\ Len(rs) = Len(AloneRequests(a, rs)))
AloneResult(a, rs) ==
    LET last == rs[Len(rs)]
    IN IF AloneRejected(a) THEN GuardOf(activeQueriesOf(a), config)
       ELSE IF ~last.ok THEN errorMessageOf(last.error)
       ELSE IF Len(last.env.hits) = 0 THEN NoResultsText
       ELSE responseTextOf(last.env, last.env.hits)

\* The invocation whose locals are f has done what it would have done alone.
AsAlone(f) ==
    f.pc # "idle" =>
        /\ f.requests = AloneRequests(f.args, f.replies)
        /\ Len(f.replies) <= Len(f.requests)
        /\ \A k \in 1..Len(f.replies) :
              f.replies[k] \in (IF k = 1 THEN ExactOutcomes(index, f.requests[1])
                                ELSE FuzzyOutcomes(index, f.requests[2]))
        /\ (f.pc = "done") <=> AloneOver(f.args, f.replies)
        /\ f.pc = "done" =>
              /\ f.outcome = "returned"
              /\ f.result = AloneResult(f.args, f.replies)

\* C14: invocations that run at the same time share no mutable state: in every
\* interleaving, against an index that does not change, each invocation has
\* sent the requests, got answers to its own requests and returned the text
\* that it would have alone.
C14_InvocationsIndependent ==
    /\ AsAlone(Locals)
    /\ suspended # NoLocals => AsAlone(suspended)

\* Two invocations with different arguments are under way at once: one waits
\* for its fuzzy search, the other one, started meanwhile, for its exact search.
C14_Witness ==
    /\ pc = "fuzzy"
    /\ Len(replies) = 1
    /\ suspended # NoLocals
    /\ suspended.pc = "exact"
    /\ Len(suspended.requests) = 1
    /\ suspended.args # args

\* C21: when the field list of the fuzzy search is empty the fuzzy phase
\* counts as no results: the invocation ends with the no-results sentence and
\* not with an error, whatever the backend answers to a search with no scope.
C21_EmptyScopeIsNoResults ==
    (FuzzySent /\ Len(requests[2].query_by) = 0 /\ pc = "done") =>
        /\ outcome = "returned"
        /\ result = NoResultsText

\* The invocation has ended with one text of the five kinds.
EndedWithText ==
    /\ pc = "done"
    /\ outcome = "returned"
    /\ \/ result \in {NoQueryText, NoCredentialsText, NoResultsText}
       \/ Len(result) > 0 /\ result[1] \in {"An error occurred: ", "An aggregate error occurred: "}
       \/ IsReport /\ Len(hits) > 0

\* A step of a phase: the phase that waits takes its answer and either ends
\* the invocation or, phase 1 having found nothing, starts phase 2 at once.
PhaseRunsToCompletion ==
    /\ pc = "exact" =>
          /\ Len(replies') = 1
          /\ pc' = IF replies'[1].ok /\ Len(replies'[1].env.hits) = 0 THEN "fuzzy" ELSE "done"
          /\ Len(requests') = IF pc' = "fuzzy" THEN 2 ELSE 1
    /\ pc = "fuzzy" =>
          /\ Len(replies') = 2
          /\ pc' = "done"
          /\ requests' = requests
    /\ pc = "done" => pc' = "idle"

\* C22: provided every search sent eventually returns or fails, an invocation
\* that has started eventually ends with exactly one text (validation,
\* credentials, error, no-results or report); no phase is left midway, and
\* phase 2 follows a zero-hit phase 1 in the same step.
C22_EndsWithOneText ==
    /\ [](pc = "done" => EndedWithText)
    /\ [][PhaseRunsToCompletion]_vars
    /\ (pc \in {"exact", "fuzzy"}) ~> EndedWithText

\* Both phases have run and the invocation has ended with a report.
C22_Witness ==
    /\ EndedWithText
    /\ Len(replies) = 2
    /\ IsReport

\* A step of the lookup leaves the index and the configuration as they were.
FrameKept == index' = index /\ config' = config

\* C23: in every outcome (hits, no results, rejection, backend error) an
\* invocation leaves the records of the index and the backend configuration
\* unchanged, and nothing of one invocation is kept for a later one: once it
\* has returned every local is as before a call, and each invocation, the
\* first or a later one, sends its own requests and answers from their
\* answers alone.
C23_NoMutationNoCache ==
    /\ [][FrameKept]_vars
    /\ [](pc = "idle" => Locals = IdleLocals)
    /\ []AsAlone(Locals)

\* An invocation has ended with a report from the index, which still holds
\* the records the report shows.
C23_Witness ==
    /\ pc = "done"
    /\ IsReport
    /\ Len(hits) = 2
    /\ \A i \in 1..Len(hits) : \E k \in 1..Len(index) : index[k] = hits[i].document


\* ------------------------------------------- the fleet_vessel_lookup variant

\* per_page of the phase 1 request of fleetVesselLookup.
FleetExactPerPage == 50

\* A faulty fleetVesselLookupExactParameters: the variant searches without a
\* filter.
fleetVesselLookupExactParametersNoFilter(aq) ==
    [q |-> <<"*">>, filter_by |-> <<>>, per_page |-> FleetExactPerPage]

\* The phase 1 request of fleetVesselLookup.
fleetVesselLookupExactParameters(aq) ==
    [q |-> <<"*">>, filter_by |-> filterQueryOf(entriesOf(aq)), per_page |-> FleetExactPerPage]

\* An index with one record more than the smaller page holds, every record
\* a match of the vessel query "EG".
LargeIndex == [i \in 1..(FleetExactPerPage + 1) |-> DocPool[1]]

VariantRequests ==
    {a \in Requests : /\ a.name_query \in {Undefined, Str(SAl)}
                      /\ a.vessel_query \in {Undefined, Str(SEG), Str(SOperators)}
                      /\ a.email_query \in {Undefined, Str(STrue)}}

\* Both handlers are idle; suspended holds the locals of fleetVesselLookup.
VariantInit ==
    /\ config \in {c \in Configs : c.host.def /\ c.port.def /\ c.protocol.def}
    /\ index \in {<<>>, Pick(DocPool, {1, 2}, 1), Pick(DocPool, {3, 4}, 1), LargeIndex}
    /\ pc = "idle"
    /\ args = NoArgs
    /\ activeQueries = <<>>
    /\ searchParameters = NoParameters
    /\ searchResults = NoEnvelope
    /\ hits = <<>>
    /\ requests = <<>>
    /\ replies = <<>>
    /\ outcome = "pending"
    /\ result = <<>>
    /\ name = "get_vessel_personnel_info"
    /\ suspended = NoLocals
    /\ attempt = 0

\* get_vessel_personnel_info is called; over the large index only with the
\* query that every record matches (the full-text answers over it are too many
\* to enumerate).
VariantInvoke(a) ==
    /\ suspended = NoLocals \/ suspended.pc = "idle"
    /\ Len(index) > MaxIndex =>
          a = [name_query |-> Undefined, vessel_query |-> Str(SEG), email_query |-> Undefined]
    /\ Invoke(a)

\* fleetVesselLookup is called with the arguments the other handler has.
FleetInvoke ==
    /\ pc # "idle"
    /\ suspended = NoLocals \/ suspended.pc = "idle"
    /\ LET aq == activeQueriesOf(args)
           rejected == GuardOf(aq, config)
       IN suspended' =
            IF Len(rejected) > 0
            THEN [IdleLocals EXCEPT !.pc = "done", !.args = args,
                                    !.outcome = "returned", !.result = rejected]
            ELSE [IdleLocals EXCEPT !.pc = "exact", !.args = args,
                                    !.activeQueries = aq,
                                    !.searchParameters = fleetVesselLookupExactParameters(aq),
                                    !.requests = <<fleetVesselLookupExactParameters(aq)>>]
    /\ UNCHANGED <<config, index, pc, args, activeQueries, searchParameters,
                   searchResults, hits, requests, replies, outcome, result, name, attempt>>

\* What ends an invocation of fleetVesselLookup whose search answered o.
FleetSettled(frame, o) ==
    IF ~o.ok
    THEN [frame EXCEPT !.pc = "done", !.replies = Append(frame.replies, o),
                       !.outcome = CatchOf(o.error).outcome,
                       !.result = CatchOf(o.error).text]
    ELSE LET sr == AssignSearchResults(frame.searchResults, o.env)
         IN [frame EXCEPT !.pc = "done", !.replies = Append(frame.replies, o),
                          !.searchResults = sr, !.hits = hitsOf(sr),
                          !.outcome = FinishOf(sr, hitsOf(sr)).outcome,
                          !.result = FinishOf(sr, hitsOf(sr)).text]

\* The phase 1 search of fleetVesselLookup settles, the backend behaving as it
\* did for the other handler: the same failure, or the records that pass the
\* filter sent.
FleetExactReply ==
    /\ suspended # NoLocals
    /\ suspended.pc = "exact"
    /\ Len(replies) >= 1
    /\ LET o == IF replies[1].ok
                THEN Answer(ExactEnvelope(index, suspended.searchParameters))
                ELSE replies[1]
       IN suspended' =
            IF o.ok /\ FallsBack(hitsOf(AssignSearchResults(suspended.searchResults, o.env)))
            THEN LET sr == AssignSearchResults(suspended.searchResults, o.env)
                 IN [suspended EXCEPT
                       !.pc = "fuzzy", !.replies = Append(suspended.replies, o),
                       !.searchResults = sr, !.hits = hitsOf(sr),
                       !.searchParameters = FuzzyParameters(suspended.activeQueries),
                       !.requests = Append(suspended.requests,
                                           FuzzyParameters(suspended.activeQueries))]
            ELSE FleetSettled(suspended, o)
    /\ UNCHANGED <<config, index, pc, args, activeQueries, searchParameters,
                   searchResults, hits, requests, replies, outcome, result, name, attempt>>

\* The phase 2 search of fleetVesselLookup settles, the backend answering as
\* it answered the other handler.
FleetFuzzyReply ==
    /\ suspended # NoLocals
    /\ suspended.pc = "fuzzy"
    /\ Len(replies) = 2
    /\ suspended' = FleetSettled(suspended, replies[2])
    /\ UNCHANGED <<config, index, pc, args, activeQueries, searchParameters,
                   searchResults, hits, requests, replies, outcome, result, name, attempt>>

\* Both callers have their result.
VariantReturn ==
    /\ suspended # NoLocals
    /\ suspended.pc = "done"
    /\ pc = "done"
    /\ pc' = "idle"
    /\ args' = NoArgs
    /\ activeQueries' = <<>>
    /\ searchParameters' = NoParameters
    /\ searchResults' = NoEnvelope
    /\ hits' = <<>>
    /\ requests' = <<>>
    /\ replies' = <<>>
    /\ outcome' = "pending"
    /\ result' = <<>>
    /\ suspended' = IdleLocals
    /\ UNCHANGED <<config, index, name, attempt>>

VariantNext ==
    \/ \E a \in VariantRequests : VariantInvoke(a)
    \/ ExactReply
    \/ FuzzyReply
    \/ FleetInvoke
    \/ FleetExactReply
    \/ FleetFuzzyReply
    \/ VariantReturn

VariantSpec == VariantInit /\ [][VariantNext]_vars

\* fleetVesselLookup has been called for the arguments the other handler has.
FleetStarted == suspended # NoLocals /\ suspended.pc # "idle"

\* The text fleetVesselLookup owes, given where get_vessel_personnel_info
\* ended: the same text, a phase 1 report being cut to the smaller page.
FleetTextOwed ==
    IF Len(replies) = 1 /\ replies[1].ok /\ Len(hits) > FleetExactPerPage
    THEN responseTextOf(searchResults, Take(hits, FleetExactPerPage))
    ELSE result

\* C24: fleetVesselLookup and get_vessel_personnel_info, given the same
\* arguments and the same backend behaviour, send the same phase 1 filter
\* (the page size alone differs, 50 against 250) and the same phase 2
\* request, are in the same phase after the same number of answers, and end
\* with the same text; the one effect of the page size is that a phase 1
\* report of more than 50 matches shows the first 50 of them.
C24_SameMachineButPageSize ==
    FleetStarted =>
       /\ suspended.args = args
       /\ Len(suspended.requests) >= 1 =>
             /\ Len(requests) >= 1
             /\ suspended.requests[1].filter_by = requests[1].filter_by
             /\ suspended.requests[1].q = requests[1].q
             /\ suspended.requests[1].per_page = FleetExactPerPage
             /\ requests[1].per_page = ExactPerPage
       /\ Len(suspended.requests) = 2 =>
             /\ Len(requests) = 2
             /\ suspended.requests[2] = requests[2]
       /\ Len(suspended.replies) = Len(replies) =>
             /\ suspended.pc = pc
             /\ suspended.outcome = outcome
             /\ Len(suspended.requests) = Len(requests)
             /\ suspended.searchResults.found = searchResults.found
             /\ pc = "done" => suspended.result = FleetTextOwed

\* Both handlers ended with the report of a phase 1 search that matched more
\* records than the smaller page holds.
C24_Witness ==
    /\ FleetStarted
    /\ pc = "done" /\ suspended.pc = "done"
    /\ Len(replies) = 1 /\ IsReport
    /\ Len(hits) > FleetExactPerPage
    /\ Len(suspended.hits) = FleetExactPerPage

\* Both handlers ended with the same text.
C24_SameResponseText ==
    (FleetStarted /\ pc = "done" /\ suspended.pc = "done") => suspended.result = result

\* C25: the check on the queries comes before the check on the credentials: an
\* invocation with no query slot supplied, the backend credentials being
\* absent as well, ends with the validation message and not with the
\* credentials message.
C25_QueryCheckFirst ==
    (pc # "idle" /\ ~SomeSlotSupplied /\ ~CredentialsConfigured(config)) =>
        /\ pc = "done"
        /\ result = NoQueryText
        /\ result # NoCredentialsText

\* No slot, and neither host nor port nor protocol is configured.
C25_Witness ==
    /\ pc = "done"
    /\ args = NoArgs
    /\ ~config.host.def /\ ~config.port.def /\ ~config.protocol.def
    /\ result = NoQueryText

\* ------------------------------------------- the index as a read replica

\* What the external system may make of the collection.
ReplicaIndexes ==
    {<<>>, Pick(DocPool, {1}, 1), Pick(DocPool, {2}, 1), Pick(DocPool, {1, 2}, 1)}

ReplicaInit ==
    /\ LiveInit
    /\ index \in ReplicaIndexes

\* The external system writes the collection: records come and go at any
\* moment, between the two searches of an invocation as well.
IndexChanges ==
    /\ \E docs \in ReplicaIndexes \ {index} : index' = docs
    /\ UNCHANGED <<config, pc, args, activeQueries, searchParameters, searchResults,
                   hits, requests, replies, outcome, result, name, suspended, attempt>>

ReplicaNext ==
    \/ \E a \in LiveRequests : Invoke(a)
    \/ ExactReply
    \/ FuzzyReply
    \/ Return
    \/ IndexChanges

ReplicaSpec == ReplicaInit /\ [][ReplicaNext]_vars

\* No record of the collection passes the filter of the phase 1 request.
NoExactMatchNow ==
    \A i \in 1..Len(index) : ~FilterHolds(requests[1].filter_by, index[i])

\* The step in which the phase 2 search is answered with hits.
FuzzyAnsweredWithHits == pc = "fuzzy" /\ pc' = "done" /\ Len(hits') > 0

\* C26 as stated: when the phase 2 search is answered and its hits are
\* reported, no record of the collection passes the exact filter.
C26_FuzzyReportMeansNoExactMatch ==
    [][FuzzyAnsweredWithHits => NoExactMatchNow]_vars

\* C26, amended: phase 2 is entered only in a step in which no record of the
\* collection passes the exact filter (the moment the phase 1 search is
\* answered), and a report of phase 2 hits follows a phase 1 answer that
\* found nothing; of the collection at the moment of the phase 2 answer
\* nothing follows.
C26_NoExactMatchWhenPhaseOneAnswered ==
    /\ [][(pc = "exact" /\ pc' = "fuzzy") => NoExactMatchNow]_vars
    /\ [][FuzzyAnsweredWithHits => (replies[1].ok /\ replies[1].env.found = 0)]_vars

\* A report of phase 2 hits, while a record of the collection passes the
\* exact filter.
C26_Witness ==
    /\ pc = "done" /\ Len(replies) = 2 /\ IsReport
    /\ ~NoExactMatchNow

\* The positions of the block where a line starts with the text.
LineStarts(block, text) ==
    {p \in 2..Len(block) :
        /\ block[p - 1] \in {"\n", " ---\n"}
        /\ p + Len(text) - 1 <= Len(block)
        /\ SubSeq(block, p, p + Len(text) - 1) = text}

\* The value is falsy without being empty: false, or 0.
IsFalseOrZero(v) == (v.t = "boolean" /\ ~v.b) \/ (v.t = "number" /\ v.n = 0)

\* C27: in the report a field whose value is falsy prints no line, false and 0
\* included, and a field whose value is truthy prints exactly one line.
C27_FalsyOmittedTruthyOnce ==
    IsReport =>
        /\ Cardinality(BlockStarts) = Len(hits)
        /\ \A i \in 1..Len(hits) :
              LET doc == hits[i].document
              IN \A k \in 1..Len(doc) :
                    LET label == displayKeyOf(doc[k][1]) \o <<": ">>
                        lines == Cardinality(LineStarts(BlockOf(i), label))
                    IN /\ IsFalseOrZero(doc[k][2]) => lines = 0
                       /\ ~Truthy(doc[k][2]) => lines = 0
                       /\ Truthy(doc[k][2]) => lines = 1

\* The report shows a record with isV3: false and a record with imo: 0.
C27_Witness ==
    /\ IsReport
    /\ \E i \in 1..Len(hits) : \E k \in 1..Len(hits[i].document) :
          hits[i].document[k] = <<"isV3", VBool(FALSE)>>
    /\ \E i \in 1..Len(hits) : \E k \in 1..Len(hits[i].document) :
          hits[i].document[k] = <<"imo", VNum(0)>>

\* The text says that the tool is not known.
SaysUnknownTool == \E p \in 1..Len(result) : result[p] = "Unknown tool: "

\* C28: every name the list-tools handler returns has a case in the switch of
\* the call-tool handler: a call of a listed tool is never answered with the
\* 'Unknown tool' error text.
C28_ListedToolsAreDispatched ==
    /\ ListedNames \subseteq ToolNames
    /\ (Dispatched /\ name \in ListedNames) => ~SaysUnknownTool

\* The last tool of the list has been called and its handler has answered.
C28_Witness ==
    /\ Dispatched
    /\ name = toolDefinitions[Len(toolDefinitions)]
    /\ outcome = "returned"
    /\ ~SaysUnknownTool

\* ------------------------------------------ LlamaParseClient.parseDocument

\* maxRetries: number = 20
DefaultMaxRetries == 20
\* The largest maxRetries tried besides the default.
MaxRetriesTried == 2

\* What getJsonResult and getMarkdownResult resolve to: null (not ready, an
\* HTTP error, an exception) or the data of a 200 response.
NullResult == "null"
RetrievalResults == {NullResult, "data"}

\* const fallbackFormat = resultFormat === 'json' ? 'md' : 'json'
fallbackFormatOf(resultFormat) == IF resultFormat = "json" THEN "md" ELSE "json"

ParseArguments ==
    [maxRetries : (0..MaxRetriesTried) \cup {DefaultMaxRetries}, resultFormat : {"json", "md"}]

\* A faulty LoopGoesOn: the loop runs once more than maxRetries allows.
LoopGoesOnOnceMore(i, maxRetries) == i <= maxRetries

\* attempt < maxRetries, the test of the for loop.
LoopGoesOn(i, maxRetries) == i < maxRetries

\* attempt < maxRetries - 1, the test before the sleep between two attempts.
SleepsBeforeNext(i, maxRetries) == i < maxRetries - 1

ParseInit ==
    /\ config \in {c \in Configs : c.host.def /\ c.port.def /\ c.protocol.def /\ c.apiKey.def}
    /\ index = <<>>
    /\ pc = "idle"
    /\ args = NoArgs
    /\ activeQueries = <<>>
    /\ searchParameters = NoParameters
    /\ searchResults = NoEnvelope
    /\ hits = <<>>
    /\ requests = <<>>
    /\ replies = <<>>
    /\ outcome = "pending"
    /\ result = <<>>
    /\ name = "parseDocument"
    /\ suspended = NoLocals
    /\ attempt = 0

\* The state of the lookup tool, which the other functions leave alone.
LookupLocals == <<config, index, activeQueries, searchParameters, searchResults, hits,
                  name, suspended>>

\* parseDocument is called: it awaits fs.access(filePath).
ParseCall(a) ==
    /\ pc = "idle"
    /\ pc' = "access"
    /\ args' = a
    /\ UNCHANGED <<requests, replies, outcome, result, attempt>>
    /\ UNCHANGED LookupLocals

\* fs.access settles: no file ends the call with [false, null], a file
\* starts the submission.
AccessSettles ==
    /\ pc = "access"
    /\ \E found \in BOOLEAN :
          IF found
          THEN /\ pc' = "submit"
               /\ UNCHANGED <<outcome, result>>
          ELSE /\ pc' = "done"
               /\ outcome' = "returned"
               /\ result' = <<FALSE, NullResult>>
    /\ UNCHANGED <<args, requests, replies, attempt>>
    /\ UNCHANGED LookupLocals

\* submitParsingJob settles: without a job id the call ends with
\* [false, null], with one it sleeps 10 seconds.
SubmitSettles ==
    /\ pc = "submit"
    /\ \E submitted \in BOOLEAN :
          IF submitted
          THEN /\ pc' = "wait"
               /\ UNCHANGED <<outcome, result>>
          ELSE /\ pc' = "done"
               /\ outcome' = "returned"
               /\ result' = <<FALSE, NullResult>>
    /\ UNCHANGED <<args, requests, replies, attempt>>
    /\ UNCHANGED LookupLocals

\* The loop test with the counter at i: the next retrieval in the requested
\* format, or, the loop being over, the one retrieval in the other format.
NextRetrieval(i) ==
    IF LoopGoesOn(i, args.maxRetries)
    THEN /\ pc' = "retrieve"
         /\ requests' = Append(requests, args.resultFormat)
    ELSE /\ pc' = "fallback"
         /\ requests' = Append(requests, fallbackFormatOf(args.resultFormat))

\* The initial sleep is over: the loop starts with attempt = 0.
InitialWaitOver ==
    /\ pc = "wait"
    /\ attempt' = 0
    /\ NextRetrieval(0)
    /\ UNCHANGED <<args, replies, outcome, result>>
    /\ UNCHANGED LookupLocals

\* A retrieval in the requested format settles: a result that is not null
\* ends the call with [true, result]; null leads to the sleep before the next
\* attempt, or after the last attempt straight on.
RetrieveSettles ==
    /\ pc = "retrieve"
    /\ \E r \in RetrievalResults :
          /\ replies' = Append(replies, r)
          /\ IF r # NullResult
             THEN /\ pc' = "done"
                  /\ outcome' = "returned"
                  /\ result' = <<TRUE, r>>
                  /\ UNCHANGED <<requests, attempt>>
             ELSE IF SleepsBeforeNext(attempt, args.maxRetries)
             THEN /\ pc' = "sleep"
                  /\ UNCHANGED <<requests, attempt, outcome, result>>
             ELSE /\ attempt' = attempt + 1
                  /\ NextRetrieval(attempt + 1)
                  /\ UNCHANGED <<outcome, result>>
    /\ UNCHANGED args
    /\ UNCHANGED LookupLocals

\* The sleep between two attempts is over: attempt++ and the loop test.
SleepOver ==
    /\ pc = "sleep"
    /\ attempt' = attempt + 1
    /\ NextRetrieval(attempt + 1)
    /\ UNCHANGED <<args, replies, outcome, result>>
    /\ UNCHANGED LookupLocals

\* The retrieval in the other format settles and ends the call.
FallbackSettles ==
    /\ pc = "fallback"
    /\ \E r \in RetrievalResults :
          /\ replies' = Append(replies, r)
          /\ result' = IF r # NullResult THEN <<TRUE, r>> ELSE <<FALSE, NullResult>>
    /\ pc' = "done"
    /\ outcome' = "returned"
    /\ UNCHANGED <<args, requests, attempt>>
    /\ UNCHANGED LookupLocals

\* The caller has the pair; the locals are gone.
ParseReturn ==
    /\ pc = "done"
    /\ pc' = "idle"
    /\ args' = NoArgs
    /\ requests' = <<>>
    /\ replies' = <<>>
    /\ outcome' = "pending"
    /\ result' = <<>>
    /\ attempt' = 0
    /\ UNCHANGED LookupLocals

ParseNext ==
    \/ \E a \in ParseArguments : ParseCall(a)
    \/ AccessSettles
    \/ SubmitSettles
    \/ InitialWaitOver
    \/ RetrieveSettles
    \/ SleepOver
    \/ FallbackSettles
    \/ ParseReturn

\* Every request sent settles and every timer set fires.
ParseSpec ==
    /\ ParseInit
    /\ [][ParseNext]_vars
    /\ WF_vars(AccessSettles)
    /\ WF_vars(SubmitSettles)
    /\ WF_vars(InitialWaitOver)
    /\ WF_vars(RetrieveSettles)
    /\ WF_vars(SleepOver)
    /\ WF_vars(FallbackSettles)

\* How many of the retrievals sent asked for the format f.
RetrievalsIn(f) == Cardinality({i \in 1..Len(requests) : requests[i] = f})

\* The retrievals sent so far keep to the budget: at most maxRetries in the
\* requested format, then at most one in the other format, each sent only
\* after every earlier one gave null.
PollingWithinBudget ==
    pc # "idle" =>
        /\ RetrievalsIn(args.resultFormat) <= args.maxRetries
        /\ RetrievalsIn(fallbackFormatOf(args.resultFormat)) <= 1
        /\ \A i \in 1..Len(requests) :
              requests[i] = fallbackFormatOf(args.resultFormat) =>
                 /\ i = Len(requests)
                 /\ i = args.maxRetries + 1
        /\ \A i \in 1..Len(replies) : i < Len(requests) => replies[i] = NullResult
        /\ Len(replies) <= Len(requests)

\* The pair returned after polling: true with the first result that is not
\* null, false with null when every retrieval of the budget gave null.
PollingResult ==
    (pc = "done" /\ Len(requests) > 0) =>
        /\ Len(replies) = Len(requests)
        /\ LET last == replies[Len(replies)]
           IN IF last # NullResult
              THEN result = <<TRUE, last>>
              ELSE /\ result = <<FALSE, NullResult>>
                   /\ Len(requests) = args.maxRetries + 1

IsWhiteSpace(c) == c \in {" ", "\t", "\n"}
RECURSIVE trimStart(_)
trimStart(s) == IF Len(s) > 0 /\ IsWhiteSpace(s[1]) THEN trimStart(Tail(s)) ELSE s
RECURSIVE trimEnd(_)
trimEnd(s) ==
    IF Len(s) > 0 /\ IsWhiteSpace(s[Len(s)]) THEN trimEnd(SubSeq(s, 1, Len(s) - 1)) ELSE s
trim(s) == trimEnd(trimStart(s))

SubjectRequiredText == <<"Error: Email subject is required">>
ContentRequiredText == <<"Error: Email content is required">>
RecipientRequiredText == <<"Error: At least one recipient is required">>

\* The TypeError of calling trim on a value that has none.
TrimTypeError(field) ==
    Thrown(ErrorOf(<<"args.", field, ".trim is not a function">>), FALSE, <<>>)

\* !v || v.trim().length === 0: "blank", "present", or "throws" for a truthy
\* value that is no string.
TextCheck(v) ==
    IF ~Truthy(v) THEN "blank"
    ELSE IF ~IsStringValue(v) THEN "throws"
    ELSE IF Len(trim(v.s)) = 0 THEN "blank"
    ELSE "present"

\* !args.recipient || args.recipient.length === 0
RecipientMissing(v) ==
    \/ ~Truthy(v)
    \/ v.t = "array" /\ Len(v.a) = 0

\* A faulty mailValidationOf: the content is checked before the subject.
mailValidationOfContentFirst(a) ==
    IF TextCheck(a.content) = "blank" THEN [kind |-> "text", text |-> ContentRequiredText]
    ELSE IF TextCheck(a.content) = "throws"
    THEN [kind |-> "text", text |-> <<"Error sending email: ">> \o TrimTypeError("content").message]
    ELSE IF TextCheck(a.subject) = "blank" THEN [kind |-> "text", text |-> SubjectRequiredText]
    ELSE IF TextCheck(a.subject) = "throws"
    THEN [kind |-> "text", text |-> <<"Error sending email: ">> \o TrimTypeError("subject").message]
    ELSE IF RecipientMissing(a.recipient) THEN [kind |-> "text", text |-> RecipientRequiredText]
    ELSE [kind |-> "send", text |-> <<>>]

\* The input validation of mailCommunication, with its catch block: the text
\* it returns, or that sendGmail is called.
mailValidationOf(a) ==
    IF TextCheck(a.subject) = "blank" THEN [kind |-> "text", text |-> SubjectRequiredText]
    ELSE IF TextCheck(a.subject) = "throws"
    THEN [kind |-> "text", text |-> <<"Error sending email: ">> \o TrimTypeError("subject").message]
    ELSE IF TextCheck(a.content) = "blank" THEN [kind |-> "text", text |-> ContentRequiredText]
    ELSE IF TextCheck(a.content) = "throws"
    THEN [kind |-> "text", text |-> <<"Error sending email: ">> \o TrimTypeError("content").message]
    ELSE IF RecipientMissing(a.recipient) THEN [kind |-> "text", text |-> RecipientRequiredText]
    ELSE [kind |-> "send", text |-> <<>>]

\* What sendGmail resolves to; it catches every exception.
SendGmailResults ==
    {[status |-> "success", output |-> <<"Email sent! ID: ", "m1">>],
     [status |-> "failure", output |-> <<"Failed to send email: ", "Error", ": ",
                                         "OAuth credentials not configured">>]}

\* JSON.stringify(result)
StringifyResult(r) ==
    <<"{", "\"status\":", "\"", r.status, "\"", ",", "\"output\":", "\"">> \o r.output \o <<"\"", "}">>

MailTexts ==
    {VNull, VStr(<<>>), VStr(<<" ", "\t">>), VStr(<<"H", "i">>), VStr(<<" ", "H", " ">>), VNum(5)}
MailRecipients == {VNull, VArr(<<>>), VArr(<<SMail>>)}
EmailRequests == [subject : MailTexts, content : MailTexts, recipient : MailRecipients]

MailInit ==
    /\ config \in {c \in Configs : c.host.def /\ c.port.def /\ c.protocol.def /\ c.apiKey.def}
    /\ index = <<>>
    /\ pc = "idle"
    /\ args = NoArgs
    /\ activeQueries = <<>>
    /\ searchParameters = NoParameters
    /\ searchResults = NoEnvelope
    /\ hits = <<>>
    /\ requests = <<>>
    /\ replies = <<>>
    /\ outcome = "pending"
    /\ result = <<>>
    /\ name = "mail_communication"
    /\ suspended = NoLocals
    /\ attempt = 0

\* mailCommunication is called: a failed check returns its text, and when
\* all pass sendGmail(args) is called and awaited.
MailCall(a) ==
    /\ pc = "idle"
    /\ args' = a
    /\ IF mailValidationOf(a).kind = "text"
       THEN /\ pc' = "done"
            /\ outcome' = "returned"
            /\ result' = mailValidationOf(a).text
            /\ UNCHANGED requests
       ELSE /\ pc' = "sending"
            /\ requests' = Append(requests, a)
            /\ UNCHANGED <<outcome, result>>
    /\ UNCHANGED <<replies, attempt>>
    /\ UNCHANGED LookupLocals

\* sendGmail settles: its result, as JSON, is the text returned.
SendGmailSettles ==
    /\ pc = "sending"
    /\ \E r \in SendGmailResults :
          /\ replies' = Append(replies, r)
          /\ result' = StringifyResult(r)
    /\ pc' = "done"
    /\ outcome' = "returned"
    /\ UNCHANGED <<args, requests, attempt>>
    /\ UNCHANGED LookupLocals

\* The caller has the result.
MailReturn ==
    /\ pc = "done"
    /\ pc' = "idle"
    /\ args' = NoArgs
    /\ requests' = <<>>
    /\ replies' = <<>>
    /\ outcome' = "pending"
    /\ result' = <<>>
    /\ UNCHANGED attempt
    /\ UNCHANGED LookupLocals

MailNext ==
    \/ \E a \in EmailRequests : MailCall(a)
    \/ SendGmailSettles
    \/ MailReturn

MailSpec == MailInit /\ [][MailNext]_vars

\* The value is blank: absent, empty, or white space only.
IsBlank(v) == v = VNull \/ (v.t = "string" /\ \A i \in 1..Len(v.s) : v.s[i] \in {" ", "\t", "\n"})
IsText(v) == v.t = "string" /\ ~IsBlank(v)
NoRecipient(v) == v = VNull \/ v = VArr(<<>>)

\* C30: mailCommunication returns the text of the first check that fails,
\* subject, then content, then recipients, and does not call sendGmail; only a
\* request with a subject, a content and at least one recipient reaches
\* sendGmail, once.
C30_ValidationBeforeSend ==
    pc # "idle" =>
        /\ IsBlank(args.subject) =>
              /\ result = SubjectRequiredText /\ requests = <<>> /\ pc = "done"
        /\ (IsText(args.subject) /\ IsBlank(args.content)) =>
              /\ result = ContentRequiredText /\ requests = <<>> /\ pc = "done"
        /\ (IsText(args.subject) /\ IsText(args.content) /\ NoRecipient(args.recipient)) =>
              /\ result = RecipientRequiredText /\ requests = <<>> /\ pc = "done"
        /\ Len(requests) > 0 =>
              /\ requests = <<args>>
              /\ ~IsBlank(args.subject) /\ ~IsBlank(args.content)
              /\ ~NoRecipient(args.recipient)
        /\ Len(requests) = 0 => pc = "done" /\ Len(replies) = 0

\* Subject and content are both blank and there is no recipient: the subject
\* decides the message.
C30_Witness ==
    /\ pc = "done"
    /\ args.subject = VStr(<<" ", "\t">>)
    /\ args.content = VStr(<<>>)
    /\ args.recipient = VArr(<<>>)
    /\ result = SubjectRequiredText
====
